---- MODULE Spec2Model ----
(***************************************************************************)
(* gravityCanvas: the particle simulation core and the backend services.   *)
(*                                                                         *)
(*   Particle3D       src/src/core/GravityWell.ts  lines 110-318           *)
(*   GravityWell      src/src/core/GravityWell.ts  lines 1-109             *)
(*   SimulationEngine src/src/core/SimulationEngine.ts                     *)
(*   GravityCanvasApp src/src/main.ts                                      *)
(*   PresetService    src/unnamed/part_001                                 *)
(*   AuthService      src/backend/src/services/authService.ts              *)
(*   SocketService    src/backend/src/services/socketService.ts            *)
(*   Redis helpers    src/backend/src/config/redis.ts                      *)
(*                                                                         *)
(* The specifications share the variables below:                           *)
(*   Spec          the SimulationEngine driven through update, render,     *)
(*                 handleMouseInteraction, clearGravityWells and toggles   *)
(*   ConfigSpec    the same with updateConfig and updateCanvasBounds       *)
(*   ReconfigSpec  update, repulsive wells and updateConfig of the         *)
(*                 gravityWell settings                                    *)
(*   SnapshotSpec  update, repulsive wells and updateConfig of particle,   *)
(*                 gravityWell and particleCount settings                  *)
(*   CapSpec       a burst of handleMouseInteraction calls                 *)
(*   HostSpec      GravityCanvasApp around the engine: animation loop,     *)
(*                 input listeners, resize, destroy                        *)
(*   ParticleSpec  one Particle3D driven through applyForce and update     *)
(*   OverflowSpec  the same with forces at the ends of the double range    *)
(*   WellSpec      one GravityWell driven through its constructor and      *)
(*                 methods, with one Particle3D as the force target        *)
(*   PresetSpec    PresetService over the presets table and the cache      *)
(*   AuthSpec      AuthService: login, refreshToken, logout                *)
(*   RoomSpec      SocketService: the room handlers, interleaved at their  *)
(*                 awaits                                                  *)
(*                                                                         *)
(* Numbers.  The program computes in IEEE doubles.  The model keeps every  *)
(* coordinate on the integer grid (one grid step = one canvas unit) and    *)
(* rounds the result of a division to the nearest grid point, the way the  *)
(* program's arithmetic rounds to the nearest double.  A square root is    *)
(* never materialised: Math.sqrt(n) is carried as its radicand n and is    *)
(* compared and divided exactly (SqrtGt, SqrtLt, RoundQuot).  Three values *)
(* stand outside the grid: NaN, Infinity and MaxValue (Number.MAX_VALUE),  *)
(* with the sums and products the doubles give them (Plus, Minus,          *)
(* TimesZero, SumOfSquares).                                               *)
(***************************************************************************)
EXTENDS Integers, Sequences, FiniteSets, TLC

VARIABLES
    particles,      \* SimulationEngine.particles : sequence of Particle3D
    gravityWells,   \* SimulationEngine.gravityWells : sequence of GravityWell
    config,         \* SimulationEngine.config
    canvasBounds,   \* SimulationEngine.canvasBounds
    lastFrameTime,  \* SimulationEngine.lastFrameTime
    frameCount,     \* SimulationEngine.frameCount
    lastFpsUpdate,  \* SimulationEngine.lastFpsUpdate
    currentFps,     \* SimulationEngine.currentFps
    now,            \* the ambient clock read by performance.now()
    lastOp,         \* history: the last method called, with its arguments; for
                    \* render() and draw(), with what it put on the drawing surface
    before,         \* history: particles as they were when that method was entered
    beforeWells,    \* history: gravityWells as they were when that method was entered
    beforeConfig,   \* history: config as it was when that method was entered
    ticks,          \* history: number of update() calls that were not paused
    spawned,        \* history: number of wells constructed so far
    canvas,         \* GravityCanvasApp.canvas: its width and height
    animationId,    \* GravityCanvasApp.animationId, 0 standing for null
    scheduled,      \* the frame requests the browser holds: ids handed out by
                    \* requestAnimationFrame and neither run nor cancelled yet
    presets,        \* the table simulation_presets: preset id -> row
    redis,          \* the Redis store: key -> value
    rooms,          \* the keys of the Map SocketService.rooms
    roomObjects,    \* the RoomData objects the Map and the handlers refer to
    sockets,        \* per socket: socket.data.user and the handler in flight
    response,       \* history: the last service call and what it returned
    revoked,        \* history: the refresh tokens a completed logout was given
    signed,         \* history: the tokens jwt.sign has produced
    issued          \* history: number of identifiers (uuidv4, jwt.sign) made so far

vars == <<particles, gravityWells, config, canvasBounds, lastFrameTime, frameCount,
          lastFpsUpdate, currentFps, now, lastOp, before, beforeWells, beforeConfig,
          ticks, spawned, canvas, animationId, scheduled,
          presets, redis, rooms, roomObjects, sockets, response, revoked, signed,
          issued>>

\* The engine's own fields (everything but the clock and the history).
engineVars == <<particles, gravityWells, config, canvasBounds, lastFrameTime,
                frameCount, lastFpsUpdate, currentFps>>

\* The fields of the host application and the browser's frame requests.
hostVars == <<canvas, animationId, scheduled>>

\* The state of the backend services.
backendVars ==
    <<presets, redis, rooms, roomObjects, sockets, response, revoked, signed, issued>>

\* The state of SocketService.
roomVars == <<rooms, roomObjects, sockets>>

\* The history of AuthService.
authVars == <<revoked, signed>>

\* The state of the simulation in the browser.
frontVars == <<engineVars, now, lastOp, before, beforeWells, beforeConfig, ticks,
               spawned, hostVars>>

----------------------------------------------------------------------------
(* Bounds of the model *)

\* config.particle.maxSpeed
MaxSpeed == 2
\* config.particle.maxTrailLength
MaxTrailLength == 2
\* config.gravityWell.maxLife
MaxLife == 2
\* config.gravityWell.maxRange
MaxRange == 20
\* canvasBounds.width at construction
Width == 4
\* canvasBounds.height at construction
Height == 3
\* update() calls explored along one behaviour
MaxTicks == 3
\* wells spawned along one behaviour of Spec
MaxWells == 2
\* largest accumulated acceleration component at which ParticleSpec still
\* enumerates a further applyForce call
MaxAccel == 2

----------------------------------------------------------------------------
(* Program constants *)

\* the z range of the simulation volume is [-ZBound, ZBound]
ZBound == 100
\* a trail point is appended only when farther than this from the last one
TrailSpacing == 2
\* applyForceToParticle ignores a particle nearer than this
MinRange == 2
\* calculateForce: minDistance
minDistance == 5
\* calculateForce: this.strength * 100
ForceScale == 100
\* calculateForce: distanceSquared + 100
Softening == 100
\* forceMultiplier of an attractive well, in hundredths (0.06)
AttractPct == 6
\* forceMultiplier of a repulsive well, in hundredths, sign applied apart (-0.1)
RepelPct == 10
\* handleMouseInteraction: strength of a well spawned by the right button
RightStrength == 80
\* handleMouseInteraction: strength of a well spawned by any other button
LeftStrength == 50
\* updatePerformanceMetrics: the FPS estimate is refreshed every 1000 ms
FpsWindow == 1000
\* GravityWell.draw: a well fainter than alpha 0.1 (1/AlphaCut) is not drawn
AlphaCut == 10
\* defaultConfig.particle.minLifespan
MinLifespan == 300
\* defaultConfig.gravityWell.strength
ConfigStrength == 120
\* SimulationEngine.currentFps initial value
InitialFps == 60

----------------------------------------------------------------------------
(* Numbers *)

\* Numbers are grid points, and three values off the grid: NaN, Infinity and
\* MaxValue, a finite double so large that its square and its double are no
\* longer finite (Number.MAX_VALUE).  No operation of the program makes a
\* negative infinity from the inputs drawn here.
NaN == 0 - 999999

Infinity == 999999

MaxValue == 999998

\* a + b in double arithmetic
Plus(a, b) ==
    IF a = NaN \/ b = NaN THEN NaN
    ELSE IF a = Infinity \/ b = Infinity THEN Infinity
    ELSE IF a = MaxValue /\ b = MaxValue THEN Infinity
    ELSE IF a = MaxValue \/ b = MaxValue THEN MaxValue
    ELSE a + b

\* a - b in double arithmetic, for b on the grid or NaN
Minus(a, b) ==
    IF a = NaN \/ b = NaN THEN NaN
    ELSE IF a = Infinity \/ a = MaxValue THEN a
    ELSE a - b

\* a * 0 in double arithmetic
TimesZero(a) == IF a = NaN \/ a = Infinity THEN NaN ELSE 0

\* a * a + b * b + c * c in double arithmetic
SumOfSquares(a, b, c) ==
    IF a = NaN \/ b = NaN \/ c = NaN THEN NaN
    ELSE IF {a, b, c} \cap {Infinity, MaxValue} # {} THEN Infinity
    ELSE a * a + b * b + c * c

Abs(x) == IF x < 0 THEN 0 - x ELSE x

Sign(x) == IF x < 0 THEN 0 - 1 ELSE IF x > 0 THEN 1 ELSE 0

Sq(x) == x * x

Max(a, b) == IF a >= b THEN a ELSE b

\* Math.sqrt(n) > m, for m >= 0
SqrtGt(n, m) == n > m * m

\* Math.sqrt(n) < m, for m >= 0
SqrtLt(n, m) == n < m * m

\* num / (Math.sqrt(n) * den) rounded to the nearest grid point, for n > 0, den > 0:
\* the largest k with k - 1/2 <= |num| / (sqrt(n) * den), signed as num.  The
\* test (2k - 1) * sqrt(n) * den <= 2 * |num| is made in integers, in an order
\* that keeps every product within 32 bits for |num| < 23000.
RoundQuot(num, n, den) ==
    LET K == (Abs(num) \div den) + 1
        q == 2 * Abs(num)
        fits(k) == k = 0 \/ LET m == (2 * k - 1) * den
                            IN m <= q /\ m * m <= (q * q) \div n
        k == CHOOSE j \in 0..K : fits(j) /\ \A i \in 0..K : fits(i) => i <= j
    IN Sign(num) * k

\* a / b rounded to the nearest integer, for a >= 0, b > 0 (Math.round)
RoundDiv(a, b) == (2 * a + b) \div (2 * b)

\* isFinite(value) && !isNaN(value)
isValidNumber(value) == value # NaN /\ value # Infinity

isValidVector2D(vector) == isValidNumber(vector.x) /\ isValidNumber(vector.y)

isValidVector3D(vector) ==
    isValidNumber(vector.x) /\ isValidNumber(vector.y) /\ isValidNumber(vector.z)

\* isValidPosition without the two upper limits
isValidPositionNoUpper(position, bounds) ==
    /\ isValidNumber(position.x)
    /\ isValidNumber(position.y)
    /\ position.x >= 0
    /\ position.y >= 0

isValidPosition(position, bounds) ==
    /\ isValidNumber(position.x)
    /\ isValidNumber(position.y)
    /\ position.x >= 0
    /\ position.x <= bounds.width
    /\ position.y >= 0
    /\ position.y <= bounds.height

Vec3(a, b, c) == [x |-> a, y |-> b, z |-> c]

Vec2(a, b) == [x |-> a, y |-> b]

Zero3 == Vec3(0, 0, 0)

\* magnitude3D(vector), as the radicand of its square root
magnitude3D(vector) == SumOfSquares(vector.x, vector.y, vector.z)

\* distance3D(a, b), as the radicand of its square root
distance3D(a, b) ==
    SumOfSquares(Minus(a.x, b.x), Minus(a.y, b.y), Minus(a.z, b.z))

----------------------------------------------------------------------------
(* Particle3D *)

\* new Particle3D(position, config, canvasBounds) raises a construction fault
Particle3DFaults(position, bounds) ==
    \/ ~isValidVector3D(position)
    \/ ~isValidNumber(bounds.width)
    \/ ~isValidNumber(bounds.height)

\* new Particle3D(position, config, canvasBounds); velocity and life are the
\* constructor's Math.random() draws
Particle3D(position, velocity, life, cfg, bounds) ==
    [position     |-> position,
     velocity     |-> velocity,
     acceleration |-> Zero3,
     trail        |-> << >>,
     life         |-> life,
     config       |-> cfg,
     canvasBounds |-> bounds]

\* Particle3D.applyForce(force)
applyForce(p, force) ==
    IF ~isValidVector3D(force)
    THEN p
    ELSE [p EXCEPT !.acceleration = Vec3(Plus(p.acceleration.x, force.x),
                                         Plus(p.acceleration.y, force.y),
                                         Plus(p.acceleration.z, force.z))]

\* Particle3D.update, lines 152-154: velocity += acceleration
accelerate(p) ==
    Vec3(Plus(p.velocity.x, p.acceleration.x),
         Plus(p.velocity.y, p.acceleration.y),
         Plus(p.velocity.z, p.acceleration.z))

\* limitSpeed with the speed test left out: the velocity is never rescaled
limitSpeedNever(v, maxSpeed) == v

\* Particle3D.update, lines 156-162: an over-speed velocity is scaled by
\* maxSpeed / speed.  A NaN speed is not over maxSpeed; an infinite speed is,
\* and its scale maxSpeed / Infinity is 0.
limitSpeed(v, maxSpeed) ==
    LET speed == magnitude3D(v)
    IN IF speed = Infinity
       THEN Vec3(TimesZero(v.x), TimesZero(v.y), TimesZero(v.z))
       ELSE IF SqrtGt(speed, maxSpeed)
       THEN Vec3(RoundQuot(v.x * maxSpeed, speed, 1),
                 RoundQuot(v.y * maxSpeed, speed, 1),
                 RoundQuot(v.z * maxSpeed, speed, 1))
       ELSE v

\* extendTrail with the shift() left out: the trail only grows
extendTrailNoShift(trail, pos, maxTrailLength) ==
    LET hasLast == Len(trail) > 0
        far     == ~hasLast \/ SqrtGt(distance3D(pos, trail[Len(trail)]), TrailSpacing)
    IN IF far THEN Append(trail, pos) ELSE trail

\* Particle3D.update, lines 172-183: the trail after the step to pos
extendTrail(trail, pos, maxTrailLength) ==
    LET hasLast == Len(trail) > 0
        far     == ~hasLast \/ SqrtGt(distance3D(pos, trail[Len(trail)]), TrailSpacing)
        pushed  == Append(trail, pos)
    IN IF far
       THEN IF Len(pushed) > maxTrailLength THEN Tail(pushed) ELSE pushed
       ELSE trail

\* wrapAxis with the upper test left out
wrapAxisLowOnly(c, low, high) == IF c < low THEN high ELSE c

\* Particle3D.wrapAroundEdges: one axis, low < high being its two faces; leaving by
\* one face puts the particle on the other
wrapAxis(c, low, high) ==
    IF c = NaN THEN c ELSE IF c < low THEN high ELSE IF c > high THEN low ELSE c

\* wrapPosition clamping x to the near face instead of wrapping to the far one
wrapPositionClampX(pos, bounds) ==
    Vec3(IF pos.x < 0 THEN 0
         ELSE IF pos.x > bounds.width THEN bounds.width ELSE pos.x,
         wrapAxis(pos.y, 0, bounds.height),
         wrapAxis(pos.z, 0 - ZBound, ZBound))

\* Particle3D.wrapAroundEdges, lines 235-257: the three axes
wrapPosition(pos, bounds) ==
    Vec3(wrapAxis(pos.x, 0, bounds.width),
         wrapAxis(pos.y, 0, bounds.height),
         wrapAxis(pos.z, 0 - ZBound, ZBound))

\* Particle3D.wrapAroundEdges
wrapAroundEdges(p) ==
    LET w       == wrapPosition(p.position, p.canvasBounds)
        wrapped == w # p.position
    IN [p EXCEPT !.position = w,
                 !.trail    = IF wrapped THEN << >> ELSE p.trail]

\* Particle3D.update().  No statement of the try block can raise (number
\* arithmetic and Array push/shift do not throw), so the catch is not taken.
updateParticle(p) ==
    LET v   == limitSpeed(accelerate(p), p.config.maxSpeed)
        pos == Vec3(Plus(p.position.x, v.x), Plus(p.position.y, v.y),
                    Plus(p.position.z, v.z))
        moved == [p EXCEPT !.velocity     = v,
                           !.position     = pos,
                           !.acceleration = Zero3,
                           !.trail        = extendTrail(p.trail, pos, p.config.maxTrailLength)]
        w   == wrapAroundEdges(moved)
    IN [w EXCEPT !.life = w.life + 1]

\* Particle3D.draw(ctx, showTrails): the particle afterwards; draw, drawTrail3D,
\* drawParticle3D and project3DTo2D assign to ctx and to locals only
drawnParticle(p, showTrails) == p

\* Particle3D.draw(ctx, showTrails): what reaches the surface for one particle
drawParticle(p, showTrails) ==
    [trailPoints |-> IF showTrails /\ Len(p.trail) > 1 THEN Len(p.trail) ELSE 0,
     dot         |-> TRUE]

----------------------------------------------------------------------------
(* GravityWell *)

\* the constructor validating the strength only
GravityWellFaultsStrengthOnly(position, strength) == ~isValidNumber(strength)

\* new GravityWell(position, strength, isRepulsive, config) raises a construction fault
GravityWellFaults(position, strength) ==
    ~isValidVector2D(position) \/ ~isValidNumber(strength)

\* the constructor storing the strength as given
GravityWellSigned(position, strength, isRepulsive, cfg) ==
    [position    |-> Vec2(position.x, position.y),
     strength    |-> strength,
     isRepulsive |-> isRepulsive,
     life        |-> 0,
     config      |-> cfg]

\* new GravityWell(position, strength, isRepulsive, config), no fault raised
GravityWell(position, strength, isRepulsive, cfg) ==
    [position    |-> Vec2(position.x, position.y),
     strength    |-> Abs(strength),
     isRepulsive |-> isRepulsive,
     life        |-> 0,
     config      |-> cfg]

\* history carried with a well: its number in spawning order, the value of
\* ticks when it was built and the strength the constructor was handed
Tagged(well, id, born, asked) ==
    [id |-> id, born |-> born, asked |-> asked] @@ well

\* GravityWell.update()
updateWell(well) == [well EXCEPT !.life = well.life + 1]

\* isDead() with >= for >
isDeadNonStrict(well) == well.life >= well.config.maxLife

\* isDead() one tick late
isDeadLate(well) == well.life > well.config.maxLife + 1

\* GravityWell.isDead()
isDead(well) == well.life > well.config.maxLife

\* GravityWell.calculateForce(dist): the denominator distanceSquared + 100,
\* dist given by its radicand
forceDenominator(dist) == Max(dist, Sq(minDistance)) + Softening

\* wellForce taking every well for an attractive one
wellForceAttractOnly(well, p) ==
    LET dx   == well.position.x - p.position.x
        dy   == well.position.y - p.position.y
        dz   == 0 - p.position.z
        dist == distance3D(Vec3(well.position.x, well.position.y, 0), p.position)
        num  == (well.strength * ForceScale * AttractPct) \div 100
        den  == forceDenominator(dist)
    IN Vec3(RoundQuot(dx * num, dist, den),
            RoundQuot(dy * num, dist, den),
            RoundQuot(dz * num, dist, den))

\* GravityWell.applyForceToParticle(particle): the force handed to applyForce
\* when the particle is in range.  Each component is
\*   (d / dist) * (strength * 100 / (max(dist, 5)^2 + 100)) * forceMultiplier
\* with forceMultiplier in hundredths, so that strength * 100 * forceMultiplier
\* is the integer strength * ForceScale * mult / 100.
wellForce(well, p) ==
    LET dx   == well.position.x - p.position.x
        dy   == well.position.y - p.position.y
        dz   == 0 - p.position.z
        dist == distance3D(Vec3(well.position.x, well.position.y, 0), p.position)
        mult == IF well.isRepulsive THEN 0 - RepelPct ELSE AttractPct
        num  == (well.strength * ForceScale * mult) \div 100
        den  == forceDenominator(dist)
    IN Vec3(RoundQuot(dx * num, dist, den),
            RoundQuot(dy * num, dist, den),
            RoundQuot(dz * num, dist, den))

\* inRange with dist <= maxRange for dist < maxRange
inRangeInclusive(well, p) ==
    LET dist == distance3D(Vec3(well.position.x, well.position.y, 0), p.position)
    IN SqrtGt(dist, MinRange) /\ ~SqrtGt(dist, well.config.maxRange)

\* GravityWell.applyForceToParticle(particle): dist > 2 && dist < maxRange
inRange(well, p) ==
    LET dist == distance3D(Vec3(well.position.x, well.position.y, 0), p.position)
    IN SqrtGt(dist, MinRange) /\ SqrtLt(dist, well.config.maxRange)

\* GravityWell.applyForceToParticle(particle): the particle afterwards
applyForceToParticle(well, p) ==
    IF inRange(well, p) THEN applyForce(p, wellForce(well, p)) ELSE p

\* draw() ageing the well it draws
drawnWellAged(well) == [well EXCEPT !.life = well.life + 1]

\* GravityWell.draw(ctx): the well afterwards; draw assigns to ctx only
drawnWell(well) == well

\* GravityWell.draw(ctx): the well is drawn unless alpha = max(0, 1 - life/maxLife) < 0.1
wellVisible(well) ==
    AlphaCut * (well.config.maxLife - well.life) >= well.config.maxLife

----------------------------------------------------------------------------
(* SimulationEngine *)

\* Array.prototype.splice(i, 1): the sequence without its i-th element
splice(seq, i) == SubSeq(seq, 1, i - 1) \o SubSeq(seq, i + 1, Len(seq))

\* SimulationEngine.updateGravityWells(): the loop from index i down to the
\* first well; each well met is aged and, if then dead, spliced out
RECURSIVE updateGravityWellsFrom(_, _)
updateGravityWellsFrom(wells, i) ==
    IF i = 0
    THEN wells
    ELSE LET aged == [wells EXCEPT ![i] = updateWell(wells[i])]
         IN updateGravityWellsFrom(IF isDead(aged[i]) THEN splice(aged, i) ELSE aged,
                                   i - 1)

\* the loop run forwards, from the i-th well to the last: the well that moves
\* into the place of a spliced one is passed over
RECURSIVE updateGravityWellsForwardFrom(_, _)
updateGravityWellsForwardFrom(wells, i) ==
    IF i > Len(wells)
    THEN wells
    ELSE LET aged == [wells EXCEPT ![i] = updateWell(wells[i])]
         IN updateGravityWellsForwardFrom(IF isDead(aged[i]) THEN splice(aged, i) ELSE aged,
                                          i + 1)

\* updateGravityWells() iterating forwards
updateGravityWellsForward(wells) == updateGravityWellsForwardFrom(wells, 1)

\* SimulationEngine.updateGravityWells()
updateGravityWells(wells) == updateGravityWellsFrom(wells, Len(wells))

\* SimulationEngine.updateParticles(), inner loop: the wells from the i-th on
\* apply their force to p, in collection order
RECURSIVE applyWellsFrom(_, _, _)
applyWellsFrom(wells, i, p) ==
    IF i > Len(wells)
    THEN p
    ELSE applyWellsFrom(wells, i + 1, applyForceToParticle(wells[i], p))

\* SimulationEngine.updateParticles()
updateParticles(ps, wells) ==
    [i \in DOMAIN ps |-> updateParticle(applyWellsFrom(wells, 1, ps[i]))]

\* SimulationEngine.updatePerformanceMetrics(deltaTime), clock reading t:
\* <<lastFrameTime, frameCount, lastFpsUpdate, currentFps>> afterwards
updatePerformanceMetrics(deltaTime, t) ==
    IF t - lastFpsUpdate >= FpsWindow
    THEN << deltaTime, 0, t,
            RoundDiv((frameCount + 1) * 1000, t - lastFpsUpdate) >>
    ELSE << deltaTime, frameCount + 1, lastFpsUpdate, currentFps >>

\* Math.random() returns one of 0/RandomSteps .. (RandomSteps - 1)/RandomSteps;
\* a draw is kept as its numerator
RandomSteps == 4

\* Math.random() * extent, for the draw r; a non-finite extent gives NaN
randomUpTo(r, extent) ==
    IF isValidNumber(extent) THEN (r * extent) \div RandomSteps ELSE NaN

\* SimulationEngine.initializeParticles, lines 32-36: the position handed to
\* the Particle3D constructor
randomPosition(draw, bounds) ==
    Vec3(randomUpTo(draw.rx, bounds.width),
         randomUpTo(draw.ry, bounds.height),
         ((2 * draw.rz - RandomSteps) * ZBound) \div RandomSteps)

\* SimulationEngine.initializeParticles(): draws[i] is the i-th particle's
\* Math.random() draws; a particle whose constructor faults is left out
RECURSIVE initializeParticlesFrom(_, _, _, _)
initializeParticlesFrom(draws, i, cfg, bounds) ==
    IF i > Len(draws)
    THEN << >>
    ELSE LET rest == initializeParticlesFrom(draws, i + 1, cfg, bounds)
         IN IF Particle3DFaults(randomPosition(draws[i], bounds), bounds)
            THEN rest
            ELSE << Particle3D(randomPosition(draws[i], bounds), draws[i].velocity,
                               draws[i].life, cfg.particle, bounds) >> \o rest

\* SimulationEngine.initializeParticles()
initializeParticles(draws, cfg, bounds) == initializeParticlesFrom(draws, 1, cfg, bounds)

\* isValidCanvasContext(ctx)
isValidCanvasContext(ctx) == ctx = "context2d"

\* SimulationEngine.render(ctx) on a valid context: clearCanvas,
\* renderGravityWells, renderParticles
renderFrame(ps, wells, cfg) ==
    [clear |-> IF cfg.showTrails THEN "fade" ELSE "opaque",
     wells |-> Cardinality({i \in DOMAIN wells : wellVisible(wells[i])}),
     dots  |-> Cardinality({i \in DOMAIN ps : drawParticle(ps[i], cfg.showTrails).dot})]

----------------------------------------------------------------------------
(* History *)

\* a call that drew nothing
Blank == [clear |-> "none", wells |-> 0, dots |-> 0]

\* the record of a call: method name, one vector argument, one tag argument,
\* what the call drew
Drew(name, vec, tag, drawn) == [op |-> name, v |-> vec, t |-> tag, drawn |-> drawn]

Op(name, vec, tag) == Drew(name, vec, tag, Blank)

\* every method call records the particles, wells and config it found
Snapshot ==
    /\ before' = particles
    /\ beforeWells' = gravityWells
    /\ beforeConfig' = config

NoOp == Op("new", Zero3, "")

\* config.particle
ParticleConfig ==
    [maxTrailLength |-> MaxTrailLength,
     maxSpeed       |-> MaxSpeed,
     minLifespan    |-> MinLifespan,
     maxLifespan    |-> MinLifespan]

\* config.gravityWell
WellConfig ==
    [strength |-> ConfigStrength, maxLife |-> MaxLife, maxRange |-> MaxRange]

Bounds0 == [width |-> Width, height |-> Height]

\* no host application: the engine, a particle or a well is driven directly
NoHost ==
    /\ canvas = Bounds0
    /\ animationId = 0
    /\ scheduled = {}

\* null, undefined
Null == 0

\* a socket that is connected, in no room, with no handler in flight: roomId
\* is socket.data.user.roomId, pc the await the handler in flight is
\* suspended at, target the room that handler works on, wanted the
\* maxParticipants it was given, fetched the answer to its getCache
FreshSocket ==
    [connected |-> TRUE, roomId |-> Null, pc |-> "idle", target |-> Null,
     wanted |-> Null, fetched |-> [found |-> FALSE]]

\* the backend services as they start: empty table, empty store, no room
NoBackend ==
    /\ presets = << >>
    /\ redis = << >>
    /\ rooms = {}
    /\ roomObjects = << >>
    /\ sockets = << >>
    /\ response = [op |-> "none"]
    /\ revoked = {}
    /\ signed = {}
    /\ issued = 0

----------------------------------------------------------------------------
(* ParticleSpec: one Particle3D on its own *)

\* positions the constructor is given: inside the canvas, on and off the z faces
PPositions ==
    { Vec3(0, 1, 0 - ZBound), Vec3(0, 1, 0), Vec3(Width - 1, 1, ZBound - 1) }

\* the constructor's random velocity, (Math.random() - 0.5) * 1.5 per axis
PVelocities == { Vec3(a, 0, a) : a \in {0 - 1, 1} }

\* forces handed to applyForce; the last has a non-finite component
PForces ==
    { Vec3(MaxSpeed + 1, 0, 0), Vec3(0 - (MaxSpeed + 1), 0, 0),
      Vec3(0, MaxSpeed + 1, 0), Vec3(0, 0 - (MaxSpeed + 1), 0),
      Vec3(0, 0, 1), Vec3(NaN, 1, 0) }

PInit ==
    /\ \E pos \in PPositions, vel \in PVelocities :
         particles = << Particle3D(pos, vel, MinLifespan, ParticleConfig, Bounds0) >>
    /\ gravityWells = << >>
    /\ config = [particleCount |-> 1, showTrails |-> TRUE, isPaused |-> FALSE,
                 particle |-> ParticleConfig, gravityWell |-> WellConfig]
    /\ canvasBounds = Bounds0
    /\ lastFrameTime = 0
    /\ frameCount = 0
    /\ lastFpsUpdate = 0
    /\ currentFps = InitialFps
    /\ now = 0
    /\ lastOp = NoOp
    /\ before = particles
    /\ beforeWells = gravityWells
    /\ beforeConfig = config
    /\ ticks = 0
    /\ spawned = 0
    /\ NoHost
    /\ NoBackend

\* particle.applyForce(force)
PApplyForce ==
    /\ \A c \in {particles[1].acceleration.x, particles[1].acceleration.y,
                 particles[1].acceleration.z} : Abs(c) <= MaxAccel
    /\ \E force \in PForces :
         /\ particles' = << applyForce(particles[1], force) >>
         /\ lastOp' = Op("applyForce", force, "")
    /\ Snapshot
    /\ UNCHANGED hostVars
    /\ UNCHANGED backendVars
    /\ UNCHANGED <<gravityWells, config, canvasBounds, lastFrameTime, frameCount,
                   lastFpsUpdate, currentFps, now, ticks, spawned>>

\* particle.update()
PUpdate ==
    /\ ticks < MaxTicks
    /\ particles' = << updateParticle(particles[1]) >>
    /\ lastOp' = Op("update", Zero3, "")
    /\ Snapshot
    /\ UNCHANGED hostVars
    /\ UNCHANGED backendVars
    /\ ticks' = ticks + 1
    /\ UNCHANGED <<gravityWells, config, canvasBounds, lastFrameTime, frameCount,
                   lastFpsUpdate, currentFps, now, spawned>>

PNext == PApplyForce \/ PUpdate

ParticleSpec == PInit /\ [][PNext]_vars

----------------------------------------------------------------------------
(* OverflowSpec: one Particle3D handed forces from the whole range of the
   doubles *)

\* forces handed to applyForce: on the grid, with a NaN or an infinite
\* component, and finite at the top of the range
OForces ==
    { Vec3(1, 0, 0), Vec3(0, 0 - 1, 0), Vec3(NaN, 1, 0), Vec3(0, Infinity, 0),
      Vec3(MaxValue, 0, 0) }

\* particle.applyForce(force)
OApplyForce ==
    /\ \A c \in {particles[1].acceleration.x, particles[1].acceleration.y,
                 particles[1].acceleration.z} :
         Abs(c) <= MaxAccel \/ c \in {MaxValue, Infinity}
    /\ \E force \in OForces :
         /\ particles' = << applyForce(particles[1], force) >>
         /\ lastOp' = Op("applyForce", force, "")
    /\ Snapshot
    /\ UNCHANGED hostVars
    /\ UNCHANGED backendVars
    /\ UNCHANGED <<gravityWells, config, canvasBounds, lastFrameTime, frameCount,
                   lastFpsUpdate, currentFps, now, ticks, spawned>>

ONext == OApplyForce \/ PUpdate

OverflowSpec == PInit /\ [][ONext]_vars

----------------------------------------------------------------------------
(* WellSpec: one GravityWell on its own, with one Particle3D to pull on *)

WPositions == { Vec2(1, 1), Vec2(Width, 0), Vec2(NaN, 1) }

WStrengths == { 0 - LeftStrength, 0, RightStrength, NaN }

\* where the particle stands, as seen from the well at (1, 1): on it, at
\* distance 2, beside it on the x axis, just inside maxRange, at maxRange,
\* far beyond
WTargets ==
    { Vec3(1, 1, 0), Vec3(1 + MinRange, 1, 0), Vec3(Width, 1, 0),
      Vec3(1, 1, MaxRange - 1), Vec3(1, 1, MaxRange), Vec3(1, 1, ZBound - 1) }

WInit ==
    /\ \E pos \in WTargets :
         particles = << Particle3D(pos, Zero3, MinLifespan, ParticleConfig, Bounds0) >>
    /\ \E position \in WPositions, strength \in WStrengths, isRepulsive \in BOOLEAN :
         /\ ~GravityWellFaults(position, strength)
         /\ gravityWells =
              << Tagged(GravityWell(position, strength, isRepulsive, WellConfig),
                        1, 0, strength) >>
    /\ config = [particleCount |-> 1, showTrails |-> TRUE, isPaused |-> FALSE,
                 particle |-> ParticleConfig, gravityWell |-> WellConfig]
    /\ canvasBounds = Bounds0
    /\ lastFrameTime = 0
    /\ frameCount = 0
    /\ lastFpsUpdate = 0
    /\ currentFps = InitialFps
    /\ now = 0
    /\ lastOp = NoOp
    /\ before = particles
    /\ beforeWells = gravityWells
    /\ beforeConfig = config
    /\ ticks = 0
    /\ spawned = 1
    /\ NoHost
    /\ NoBackend

\* well = new GravityWell(position, strength, isRepulsive, config); a
\* construction fault leaves the well that was there
WConstruct ==
    /\ spawned < MaxWells + 1
    /\ \E position \in WPositions, strength \in WStrengths, isRepulsive \in BOOLEAN :
         IF GravityWellFaults(position, strength)
         THEN /\ lastOp' = Op("new", Vec3(position.x, position.y, strength), "fault")
              /\ UNCHANGED <<gravityWells, spawned>>
         ELSE /\ gravityWells' =
                   << Tagged(GravityWell(position, strength, isRepulsive, WellConfig),
                             spawned + 1, 0, strength) >>
              /\ spawned' = spawned + 1
              /\ lastOp' = Op("new", Vec3(position.x, position.y, strength), "built")
    /\ Snapshot
    /\ UNCHANGED hostVars
    /\ UNCHANGED backendVars
    /\ UNCHANGED <<particles, config, canvasBounds, lastFrameTime, frameCount,
                   lastFpsUpdate, currentFps, now, ticks>>

\* well.update()
WUpdate ==
    /\ gravityWells[1].life < gravityWells[1].config.maxLife + 2
    /\ gravityWells' = << updateWell(gravityWells[1]) >>
    /\ lastOp' = Op("update", Zero3, "")
    /\ Snapshot
    /\ UNCHANGED hostVars
    /\ UNCHANGED backendVars
    /\ UNCHANGED <<particles, config, canvasBounds, lastFrameTime, frameCount,
                   lastFpsUpdate, currentFps, now, ticks, spawned>>

\* well.applyForceToParticle(particle)
WApplyForce ==
    /\ \A c \in {particles[1].acceleration.x, particles[1].acceleration.y,
                 particles[1].acceleration.z} : Abs(c) <= MaxAccel
    /\ particles' = << applyForceToParticle(gravityWells[1], particles[1]) >>
    /\ lastOp' = Op("applyForceToParticle", Zero3, "")
    /\ Snapshot
    /\ UNCHANGED hostVars
    /\ UNCHANGED backendVars
    /\ UNCHANGED <<gravityWells, config, canvasBounds, lastFrameTime, frameCount,
                   lastFpsUpdate, currentFps, now, ticks, spawned>>

\* well.draw(ctx)
WDraw ==
    /\ lastOp' = Drew("draw", Zero3, "",
                      [Blank EXCEPT !.wells = IF wellVisible(gravityWells[1]) THEN 1 ELSE 0])
    /\ Snapshot
    /\ UNCHANGED hostVars
    /\ UNCHANGED backendVars
    /\ UNCHANGED <<particles, gravityWells, config, canvasBounds, lastFrameTime,
                   frameCount, lastFpsUpdate, currentFps, now, ticks, spawned>>

WNext == WConstruct \/ WUpdate \/ WApplyForce \/ WDraw

WellSpec == WInit /\ [][WNext]_vars

----------------------------------------------------------------------------
(* Spec: the SimulationEngine behind its public methods *)

\* config.particleCount at construction
ParticleCount == 1

\* the Math.random() draws of one particle: the three of its position, its
\* velocity, its life
Draws ==
    { [rx |-> 1, ry |-> 2, rz |-> 2, velocity |-> Vec3(1, 0, 0), life |-> MinLifespan],
      [rx |-> 3, ry |-> 3, rz |-> 0, velocity |-> Vec3(0, 0 - 1, 0 - 1),
       life |-> MinLifespan] }

DrawSeqs(n) == [1..n -> Draws]

\* frame deltas handed to update(), in ms
DeltaTimes == {16, 33}

\* ms between two readings of performance.now()
ClockStep == 500

\* the interactions handed to handleMouseInteraction; the position of the last
\* is not finite
Interactions ==
    { [position |-> Vec2(1, 1), button |-> "left"],
      [position |-> Vec2(Width, Height), button |-> "right"],
      [position |-> Vec2(NaN, 1), button |-> "left"] }

Contexts == {"context2d", "null"}

Config0 ==
    [particleCount |-> ParticleCount, showTrails |-> TRUE, isPaused |-> FALSE,
     particle |-> ParticleConfig, gravityWell |-> WellConfig]

\* new SimulationEngine(config, canvasBounds)
Constructed ==
    /\ config = Config0
    /\ canvasBounds = Bounds0
    /\ \E draws \in DrawSeqs(Config0.particleCount) :
         particles = initializeParticles(draws, Config0, Bounds0)
    /\ gravityWells = << >>
    /\ lastFrameTime = 0
    /\ frameCount = 0
    /\ lastFpsUpdate = 0
    /\ currentFps = InitialFps
    /\ now = 0
    /\ lastOp = NoOp
    /\ before = particles
    /\ beforeWells = gravityWells
    /\ beforeConfig = config
    /\ ticks = 0
    /\ spawned = 0

\* the engine constructed, driven directly through its public methods
Init == Constructed /\ NoHost /\ NoBackend

\* update() with the pause test left out
skipsUpdateNever(cfg) == FALSE

\* SimulationEngine.update, line 47: if (this.config.isPaused) {return;}
skipsUpdate(cfg) == cfg.isPaused

\* update() with its last two steps exchanged: the particles take the force of
\* the wells as they stood before the cull
UpdatingForcesFirst(deltaTime) ==
    IF skipsUpdate(config)
    THEN UNCHANGED <<particles, gravityWells, lastFrameTime, frameCount,
                     lastFpsUpdate, currentFps, now, ticks>>
    ELSE /\ ticks < MaxTicks
         /\ now' = now + ClockStep
         /\ LET m == updatePerformanceMetrics(deltaTime, now + ClockStep)
            IN /\ lastFrameTime' = m[1]
               /\ frameCount' = m[2]
               /\ lastFpsUpdate' = m[3]
               /\ currentFps' = m[4]
         /\ gravityWells' = updateGravityWells(gravityWells)
         /\ particles' = updateParticles(particles, gravityWells)
         /\ ticks' = ticks + 1

\* engine.update(deltaTime); when it reads the clock, the clock has moved on by
\* ClockStep since the last reading
Updating(deltaTime) ==
    IF skipsUpdate(config)
    THEN UNCHANGED <<particles, gravityWells, lastFrameTime, frameCount,
                     lastFpsUpdate, currentFps, now, ticks>>
    ELSE /\ ticks < MaxTicks
         /\ now' = now + ClockStep
         /\ LET m == updatePerformanceMetrics(deltaTime, now + ClockStep)
            IN /\ lastFrameTime' = m[1]
               /\ frameCount' = m[2]
               /\ lastFpsUpdate' = m[3]
               /\ currentFps' = m[4]
         /\ gravityWells' = updateGravityWells(gravityWells)
         /\ particles' = updateParticles(particles, gravityWells')
         /\ ticks' = ticks + 1

\* engine.update(deltaTime), called directly
Update(deltaTime) ==
    /\ lastOp' = Op("update", Vec3(deltaTime, 0, 0), "")
    /\ Updating(deltaTime)
    /\ Snapshot
    /\ UNCHANGED hostVars
    /\ UNCHANGED backendVars
    /\ UNCHANGED <<config, canvasBounds, spawned>>

\* engine.render(ctx)
Render(ctx) ==
    /\ lastOp' = Drew("render", Zero3, ctx,
                      IF isValidCanvasContext(ctx)
                      THEN renderFrame(particles, gravityWells, config)
                      ELSE Blank)
    /\ IF isValidCanvasContext(ctx)
       THEN /\ gravityWells' = [i \in DOMAIN gravityWells |-> drawnWell(gravityWells[i])]
            /\ particles' = [i \in DOMAIN particles |->
                               drawnParticle(particles[i], config.showTrails)]
       ELSE UNCHANGED <<particles, gravityWells>>
    /\ UNCHANGED <<config, canvasBounds, lastFrameTime, frameCount, lastFpsUpdate,
                   currentFps, now, ticks, spawned>>
    /\ Snapshot
    /\ UNCHANGED hostVars
    /\ UNCHANGED backendVars

\* the two strengths the wrong way round
interactionStrengthSwapped(button) ==
    IF button = "right" THEN LeftStrength ELSE RightStrength

\* SimulationEngine.handleMouseInteraction, line 72
interactionStrength(button) ==
    IF button = "right" THEN RightStrength ELSE LeftStrength

\* engine.handleMouseInteraction({position, button})
HandleMouseInteraction(position, button) ==
    LET strength    == interactionStrength(button)
        isRepulsive == button = "right"
    IN /\ lastOp' = Op("handleMouseInteraction", Vec3(position.x, position.y, 0), button)
       /\ IF GravityWellFaults(position, strength)
          THEN UNCHANGED <<gravityWells, spawned>>
          ELSE /\ gravityWells' =
                    Append(gravityWells,
                           Tagged(GravityWell(position, strength, isRepulsive,
                                              config.gravityWell),
                                  spawned + 1, ticks, strength))
               /\ spawned' = spawned + 1
       /\ Snapshot
       /\ UNCHANGED hostVars
       /\ UNCHANGED backendVars
       /\ UNCHANGED <<particles, config, canvasBounds, lastFrameTime, frameCount,
                      lastFpsUpdate, currentFps, now, ticks>>

\* clearGravityWells() dropping the dead wells only
ClearGravityWellsDeadOnly ==
    /\ lastOp' = Op("clearGravityWells", Zero3, "")
    /\ gravityWells' = SelectSeq(gravityWells, LAMBDA well : ~isDead(well))
    /\ UNCHANGED <<particles, config, canvasBounds, lastFrameTime, frameCount,
                   lastFpsUpdate, currentFps, now, ticks, spawned>>
    /\ Snapshot
    /\ UNCHANGED hostVars
    /\ UNCHANGED backendVars

\* engine.clearGravityWells()
ClearGravityWells ==
    /\ lastOp' = Op("clearGravityWells", Zero3, "")
    /\ gravityWells' = << >>
    /\ UNCHANGED <<particles, config, canvasBounds, lastFrameTime, frameCount,
                   lastFpsUpdate, currentFps, now, ticks, spawned>>
    /\ Snapshot
    /\ UNCHANGED hostVars
    /\ UNCHANGED backendVars

\* engine.toggleTrails()
ToggleTrails ==
    /\ lastOp' = Op("toggleTrails", Zero3, "")
    /\ config' = [config EXCEPT !.showTrails = ~config.showTrails]
    /\ UNCHANGED <<particles, gravityWells, canvasBounds, lastFrameTime, frameCount,
                   lastFpsUpdate, currentFps, now, ticks, spawned>>
    /\ Snapshot
    /\ UNCHANGED hostVars
    /\ UNCHANGED backendVars

\* togglePause() flipping showTrails as well
TogglePauseBoth ==
    /\ lastOp' = Op("togglePause", Zero3, "")
    /\ config' = [config EXCEPT !.isPaused = ~config.isPaused,
                                !.showTrails = ~config.showTrails]
    /\ UNCHANGED <<particles, gravityWells, canvasBounds, lastFrameTime, frameCount,
                   lastFpsUpdate, currentFps, now, ticks, spawned>>
    /\ Snapshot
    /\ UNCHANGED hostVars
    /\ UNCHANGED backendVars

\* engine.togglePause()
TogglePause ==
    /\ lastOp' = Op("togglePause", Zero3, "")
    /\ config' = [config EXCEPT !.isPaused = ~config.isPaused]
    /\ UNCHANGED <<particles, gravityWells, canvasBounds, lastFrameTime, frameCount,
                   lastFpsUpdate, currentFps, now, ticks, spawned>>
    /\ Snapshot
    /\ UNCHANGED hostVars
    /\ UNCHANGED backendVars

\* engine.updateCanvasBounds(newBounds)
UpdateCanvasBounds(newBounds) ==
    /\ lastOp' = Op("updateCanvasBounds", Vec3(newBounds.width, newBounds.height, 0), "")
    /\ canvasBounds' = newBounds
    /\ UNCHANGED <<particles, gravityWells, config, lastFrameTime, frameCount,
                   lastFpsUpdate, currentFps, now, ticks, spawned>>
    /\ Snapshot
    /\ UNCHANGED hostVars
    /\ UNCHANGED backendVars

\* SimulationEngine.updateConfig, line 117: { ...this.config, ...newConfig }
mergeConfig(cfg, newConfig) == newConfig @@ cfg

\* newConfig.particleCount, NaN standing for undefined
requestedCount(newConfig) ==
    IF "particleCount" \in DOMAIN newConfig THEN newConfig.particleCount ELSE NaN

\* SimulationEngine.updateConfig, line 119:
\* newConfig.particleCount && newConfig.particleCount !== this.particles.length
\* (undefined, NaN and 0 are falsy)
reinitializes(newConfig, ps) ==
    /\ requestedCount(newConfig) # NaN
    /\ requestedCount(newConfig) # 0
    /\ requestedCount(newConfig) # Len(ps)

\* updateConfig with the wells and particles holding the engine's settings by
\* reference, not by copy: new settings reach the objects that already exist
UpdateConfigShared(newConfig) ==
    /\ lastOp' = Op("updateConfig", Vec3(requestedCount(newConfig), 0, 0), "")
    /\ config' = mergeConfig(config, newConfig)
    /\ IF reinitializes(newConfig, particles)
       THEN \E draws \in DrawSeqs(config'.particleCount) :
              particles' = initializeParticles(draws, config', canvasBounds)
       ELSE particles' = [i \in DOMAIN particles |->
                           [particles[i] EXCEPT !.config = config'.particle]]
    /\ gravityWells' = [k \in DOMAIN gravityWells |->
                         [gravityWells[k] EXCEPT !.config = config'.gravityWell]]
    /\ UNCHANGED <<canvasBounds, lastFrameTime, frameCount,
                   lastFpsUpdate, currentFps, now, ticks, spawned>>
    /\ Snapshot
    /\ UNCHANGED hostVars
    /\ UNCHANGED backendVars

\* engine.updateConfig(newConfig)
UpdateConfig(newConfig) ==
    /\ lastOp' = Op("updateConfig", Vec3(requestedCount(newConfig), 0, 0), "")
    /\ config' = mergeConfig(config, newConfig)
    /\ IF reinitializes(newConfig, particles)
       THEN \E draws \in DrawSeqs(config'.particleCount) :
              particles' = initializeParticles(draws, config', canvasBounds)
       ELSE UNCHANGED particles
    /\ UNCHANGED <<gravityWells, canvasBounds, lastFrameTime, frameCount,
                   lastFpsUpdate, currentFps, now, ticks, spawned>>
    /\ Snapshot
    /\ UNCHANGED hostVars
    /\ UNCHANGED backendVars

Next ==
    \/ \E deltaTime \in DeltaTimes : Update(deltaTime)
    \/ \E ctx \in Contexts : Render(ctx)
    \/ \E interaction \in Interactions :
         /\ spawned < MaxWells
         /\ HandleMouseInteraction(interaction.position, interaction.button)
    \/ ClearGravityWells
    \/ ToggleTrails
    \/ TogglePause

Spec == Init /\ [][Next]_vars

----------------------------------------------------------------------------
(* ConfigSpec: the SimulationEngine with the host resizing and reconfiguring it *)

\* bounds handed to updateCanvasBounds: a smaller canvas, a non-finite width
NewBounds ==
    { [width |-> Width - 1, height |-> Height - 1],
      [width |-> NaN, height |-> Height] }

\* partial configs handed to updateConfig
NewConfigs ==
    { [particleCount |-> 0],
      [particleCount |-> ParticleCount + 1],
      [particleCount |-> ParticleCount, isPaused |-> FALSE],
      [showTrails |-> FALSE] }

\* every public method of the engine; update, render and handleMouseInteraction
\* with one argument each
ConfigNext ==
    \/ \E deltaTime \in {16} : Update(deltaTime)
    \/ \E ctx \in {"context2d"} : Render(ctx)
    \/ \E position \in {Vec2(1, 1)} :
         spawned < MaxWells - 1 /\ HandleMouseInteraction(position, "left")
    \/ ClearGravityWells
    \/ ToggleTrails
    \/ TogglePause
    \/ \E newBounds \in NewBounds : UpdateCanvasBounds(newBounds)
    \/ \E newConfig \in NewConfigs : UpdateConfig(newConfig)

ConfigSpec == Init /\ [][ConfigNext]_vars

----------------------------------------------------------------------------
(* ReconfigSpec: the SimulationEngine spawning wells and stepping while the
   host changes the gravityWell settings, so that wells of different maxLife
   stand in one collection *)

\* config.gravityWell with a shorter life
ShortLived == [WellConfig EXCEPT !.maxLife = MaxLife - 1]

\* partial configs handed to updateConfig
Reconfigs == { [gravityWell |-> ShortLived], [gravityWell |-> WellConfig] }

\* the right-button interactions
Repulsions == { interaction \in Interactions : interaction.button = "right" }

ReconfigNext ==
    \/ \E deltaTime \in {16} : Update(deltaTime)
    \/ \E interaction \in Repulsions :
         /\ spawned < MaxWells + 1
         /\ HandleMouseInteraction(interaction.position, interaction.button)
    \/ \E newConfig \in Reconfigs : UpdateConfig(newConfig)

ReconfigSpec == Init /\ [][ReconfigNext]_vars

----------------------------------------------------------------------------
(* SnapshotSpec: the SimulationEngine spawning wells and stepping while the
   host changes the particle and gravityWell settings, with and without a new
   particleCount *)

\* config.particle with a lower speed limit
Slow == [ParticleConfig EXCEPT !.maxSpeed = MaxSpeed - 1]

\* partial configs handed to updateConfig
Resettings ==
    { [gravityWell |-> ShortLived],
      [particle |-> Slow],
      [particle |-> Slow, particleCount |-> ParticleCount + 1] }

SnapshotNext ==
    \/ \E deltaTime \in {16} : Update(deltaTime)
    \/ \E interaction \in Repulsions :
         /\ spawned < MaxWells
         /\ HandleMouseInteraction(interaction.position, interaction.button)
    \/ \E newConfig \in Resettings : UpdateConfig(newConfig)

SnapshotSpec == Init /\ [][SnapshotNext]_vars

----------------------------------------------------------------------------
(* HostSpec: GravityCanvasApp (main.ts) around the engine: the animation    *)
(* loop, the pointer and touch listeners, the resize listener, the three    *)
(* buttons and destroy()                                                    *)

\* frame callbacks explored along one behaviour
MaxFrames == 3

\* GravityCanvasApp.init() has run: the engine is built on the canvas and
\* startAnimationLoop has requested the first frame
HostInit ==
    /\ Constructed
    /\ canvas = Bounds0
    /\ animationId = 1
    /\ scheduled = {1}
    /\ NoBackend

\* where one run of the frame callback can raise a fault:
\*   "update"  inside the try block of engine.update, at performance.now()
\*   "host"    in GravityCanvasApp.update after engine.update returned
\*             (uiController.updateMetrics, updateButtonStates)
\*   "render"  inside the try block of engine.render, after clearCanvas
FrameFaults == {"none", "update", "host", "render"}

\* engine.update(deltaTime) raising at line 128: lines 125-126 have run, the
\* catch at line 53 takes the fault
UpdatingFaulted(deltaTime) ==
    IF skipsUpdate(config)
    THEN UNCHANGED <<particles, gravityWells, lastFrameTime, frameCount,
                     lastFpsUpdate, currentFps, now, ticks>>
    ELSE /\ lastFrameTime' = deltaTime
         /\ frameCount' = frameCount + 1
         /\ UNCHANGED <<particles, gravityWells, lastFpsUpdate, currentFps, now, ticks>>

\* the fault leaves the call in which it was raised and reaches animate:
\* engine.update and engine.render catch their own (lines 53 and 66 of
\* SimulationEngine.ts), GravityCanvasApp.update does not
propagates(fault) == fault = "host"

\* what one run of the frame callback puts on the surface: nothing when
\* this.update raised (render is not reached), the cleared canvas when
\* engine.render raised after clearCanvas, the whole frame otherwise
frameDrawn(fault, ps, wells, cfg) ==
    IF propagates(fault)
    THEN Blank
    ELSE IF fault = "render"
         THEN [renderFrame(ps, wells, cfg) EXCEPT !.wells = 0, !.dots = 0]
         ELSE renderFrame(ps, wells, cfg)

\* requestAnimationFrame hands out the ids 1, 2, 3, ...; animationId holds
\* the last one while the loop runs
nextRequestId(id) == id + 1

\* the catch branch of animate requesting no frame
retryRequestNone(id) == {}

\* animate, line 178: the request the catch branch makes
retryRequest(id) == {nextRequestId(id)}

\* animate, lines 169-179: the requests one run of the callback makes, at
\* line 176 when the try block ran through, at line 178 when a fault reached
\* the catch
requestsAfter(id, fault) ==
    IF propagates(fault) THEN retryRequest(id) ELSE {nextRequestId(id)}

\* one run of the frame callback animate: the browser runs the request id
Frame(id, deltaTime, fault) ==
    /\ id < MaxFrames
    /\ IF fault = "update" THEN UpdatingFaulted(deltaTime) ELSE Updating(deltaTime)
    /\ lastOp' = Drew("frame", Vec3(deltaTime, 0, 0), fault,
                      frameDrawn(fault, particles', gravityWells', config))
    /\ scheduled' = (scheduled \ {id}) \cup requestsAfter(id, fault)
    /\ animationId' = IF requestsAfter(id, fault) = {} THEN animationId
                      ELSE nextRequestId(id)
    /\ before' = particles
    /\ beforeWells' = gravityWells
    /\ beforeConfig' = config
    /\ UNCHANGED <<config, canvasBounds, spawned, canvas>>
    /\ UNCHANGED backendVars

\* app.destroy()
Destroy ==
    /\ lastOp' = Op("destroy", Zero3, "")
    /\ IF animationId # 0
       THEN /\ scheduled' = scheduled \ {animationId}
            /\ animationId' = 0
       ELSE UNCHANGED <<animationId, scheduled>>
    /\ before' = particles
    /\ beforeWells' = gravityWells
    /\ beforeConfig' = config
    /\ UNCHANGED <<engineVars, now, ticks, spawned, canvas>>
    /\ UNCHANGED backendVars

\* the events the listeners of setupEventListeners (click, contextmenu,
\* touchstart) meet, with the position relative to the canvas: inside the
\* first canvas and on the far corner of the resized one, on the far corner
\* of the first canvas, right of it, above it, not finite
PointerEvents ==
    { [kind |-> "click", button |-> "left", position |-> Vec2(Width - 1, Height - 1)],
      [kind |-> "contextmenu", button |-> "right", position |-> Vec2(Width, Height)],
      [kind |-> "touchstart", button |-> "left", position |-> Vec2(Width - 1, Height - 1)],
      [kind |-> "click", button |-> "left", position |-> Vec2(Width + 1, 1)],
      [kind |-> "contextmenu", button |-> "right", position |-> Vec2(1, 0 - 1)],
      [kind |-> "touchstart", button |-> "left", position |-> Vec2(NaN, 1)] }

\* GravityCanvasApp.handleMouseInteraction / handleTouchInteraction: the
\* event is forwarded to the engine or dropped
HostPointer(event) ==
    IF isValidPosition(event.position, canvas)
    THEN HandleMouseInteraction(event.position, event.button)
    ELSE /\ lastOp' = Op("dropped", Vec3(event.position.x, event.position.y, 0),
                         event.button)
         /\ before' = particles
         /\ beforeWells' = gravityWells
         /\ beforeConfig' = config
         /\ UNCHANGED <<engineVars, now, ticks, spawned, hostVars>>
         /\ UNCHANGED backendVars

\* window sizes the resize listener meets
WindowSizes == { [width |-> Width - 1, height |-> Height - 1] }

\* GravityCanvasApp.resizeCanvas()
HostResize(size) ==
    /\ lastOp' = Op("updateCanvasBounds", Vec3(size.width, size.height, 0), "")
    /\ canvas' = size
    /\ canvasBounds' = size
    /\ before' = particles
    /\ beforeWells' = gravityWells
    /\ beforeConfig' = config
    /\ UNCHANGED <<particles, gravityWells, config, lastFrameTime, frameCount,
                   lastFpsUpdate, currentFps, now, ticks, spawned, animationId,
                   scheduled>>
    /\ UNCHANGED backendVars

HostNext ==
    \/ \E id \in scheduled, fault \in FrameFaults : Frame(id, 16, fault)
    \/ Destroy
    \/ \E event \in PointerEvents :
         /\ isValidPosition(event.position, canvas) => spawned < MaxWells - 1
         /\ HostPointer(event)
    \/ \E size \in WindowSizes : HostResize(size)
    \/ ClearGravityWells
    \/ ToggleTrails
    \/ TogglePause

HostSpec == HostInit /\ [][HostNext]_vars

----------------------------------------------------------------------------
(* CapSpec: a burst of handleMouseInteraction calls and nothing else *)

\* calls in the burst
MaxBurst == 101

Burst ==
    /\ spawned < MaxBurst
    /\ HandleMouseInteraction(Vec2(1, 1), IF spawned % 2 = 0 THEN "left" ELSE "right")

CapSpec == Init /\ [][Burst]_vars

----------------------------------------------------------------------------
(* Claims about SimulationEngine, checked under Spec and CapSpec *)

\* C1: the well collection never holds more than 100 wells after an
\* insertion, and after 101 insertions in a row it holds the 50 wells spawned
\* last (the 52nd to the 101st), in spawning order.
C1_WellsCapped ==
    /\ Len(gravityWells) <= 100
    /\ spawned = 101 =>
         /\ Len(gravityWells) = 50
         /\ \A i \in 1..50 : gravityWells[i].id = 51 + i

\* C2: a well is in the collection only while at most maxLife unpaused
\* update() calls have run since it was spawned, each of which aged it by one:
\* after maxLife + 1 of them it is gone.
C2_WellsExpire ==
    \A i \in DOMAIN gravityWells :
      /\ gravityWells[i].life = ticks - gravityWells[i].born
      /\ ticks - gravityWells[i].born <= gravityWells[i].config.maxLife

\* C2 witness: an update() with nothing spawned since the well's birth removed
\* the last well, maxLife + 1 ticks after it was spawned
C2_Witness ==
    /\ lastOp.op = "update"
    /\ Len(beforeWells) = 1
    /\ gravityWells = << >>
    /\ ticks - beforeWells[1].born = beforeWells[1].config.maxLife + 1

\* C3: an update() called while isPaused leaves every field of the engine as
\* it was: wells, particles, config, bounds and the FPS bookkeeping.
C3_PausedUpdateNoOp ==
    [][(lastOp'.op = "update" /\ config.isPaused) => UNCHANGED engineVars]_vars

\* C3 witness: update() was called on a paused engine holding a well
C3_Witness ==
    /\ lastOp.op = "update"
    /\ config.isPaused
    /\ ticks > 0
    /\ Len(gravityWells) > 0
    /\ frameCount > 0

\* C4: render(ctx) changes no particle, no well and neither collection,
\* whether ctx is valid or not.
C4_RenderReadOnly ==
    [][lastOp'.op = "render" => UNCHANGED <<particles, gravityWells>>]_vars

\* C4 witness: a render on a valid surface drew a well that had aged, with
\* particles that had moved
C4_Witness ==
    /\ lastOp.op = "render"
    /\ lastOp.t = "context2d"
    /\ lastOp.drawn.wells > 0
    /\ gravityWells[1].life > 0
    /\ ticks > 0

\* C5: handleMouseInteraction with a finite position appends exactly one well:
\* at that position, life 0, repulsive with strength 80 for the right button,
\* attractive with strength 50 otherwise; the wells already there, the
\* particles and the config are unchanged.
C5_SpawnAppendsOne ==
    [][(lastOp'.op = "handleMouseInteraction" /\ isValidVector2D(lastOp'.v)) =>
         /\ Len(gravityWells') = Len(gravityWells) + 1
         /\ SubSeq(gravityWells', 1, Len(gravityWells)) = gravityWells
         /\ LET well == gravityWells'[Len(gravityWells')]
            IN /\ well.position = Vec2(lastOp'.v.x, lastOp'.v.y)
               /\ well.life = 0
               /\ (lastOp'.t = "right" => well.isRepulsive /\ well.strength = 80)
               /\ (lastOp'.t # "right" => ~well.isRepulsive /\ well.strength = 50)
         /\ UNCHANGED <<particles, config, canvasBounds>>]_vars

\* C5 witness: a right-button interaction appended a second well
C5_Witness ==
    /\ lastOp.op = "handleMouseInteraction"
    /\ lastOp.t = "right"
    /\ Len(beforeWells) = 1
    /\ Len(gravityWells) = 2
    /\ gravityWells[2].isRepulsive
    /\ gravityWells[2].life = 0
    /\ gravityWells[1].life > 0

\* arguments for the GravityWell constructor: finite ones, and each of the
\* three numbers non-finite in turn
C11_Arguments ==
    { [position |-> Vec2(1, 1), strength |-> LeftStrength],
      [position |-> Vec2(0, Height), strength |-> 0 - RightStrength],
      [position |-> Vec2(NaN, 1), strength |-> LeftStrength],
      [position |-> Vec2(1, NaN), strength |-> LeftStrength],
      [position |-> Vec2(1, 1), strength |-> NaN] }

\* C11: the GravityWell constructor raises a construction fault exactly when a
\* coordinate of the position or the strength is not finite; a
\* handleMouseInteraction whose position has a non-finite coordinate adds no
\* well and leaves wells, particles, config and bounds as they were.
C11_FaultSwallowed ==
    [][/\ \A a \in C11_Arguments :
            GravityWellFaults(a.position, a.strength) <=>
              (a.position.x = NaN \/ a.position.y = NaN \/ a.strength = NaN)
       /\ (lastOp'.op = "handleMouseInteraction"
             /\ (lastOp'.v.x = NaN \/ lastOp'.v.y = NaN)) =>
            UNCHANGED <<gravityWells, particles, config, canvasBounds>>]_vars

\* C11 witness: an interaction at a non-finite position came in while the
\* engine held an aged well, and the well is still the only one
C11_Witness ==
    /\ lastOp.op = "handleMouseInteraction"
    /\ lastOp.v.x = NaN
    /\ Len(gravityWells) = 1
    /\ gravityWells[1].life > 0
    /\ gravityWells = beforeWells
    /\ particles = before

\* C15: clearGravityWells() leaves the well collection empty, whatever it
\* held and whether or not the engine is paused, and leaves particles, config
\* and bounds as they were; an update() that follows it on a running engine
\* moves every particle by its own velocity alone, as with no well at all.
C15_ClearEmpties ==
    [][/\ lastOp'.op = "clearGravityWells" =>
            /\ gravityWells' = << >>
            /\ UNCHANGED <<particles, config, canvasBounds>>
       /\ (lastOp.op = "clearGravityWells" /\ lastOp'.op = "update"
             /\ ~config.isPaused) =>
            /\ gravityWells' = << >>
            /\ particles' = [i \in DOMAIN particles |-> updateParticle(particles[i])]]_vars

\* C15 witness: two wells of different ages were cleared on a paused engine
C15_Witness ==
    /\ lastOp.op = "clearGravityWells"
    /\ config.isPaused
    /\ Len(beforeWells) = 2
    /\ beforeWells[1].life > beforeWells[2].life
    /\ gravityWells = << >>
    /\ particles = before

\* C16: togglePause() negates config.isPaused and toggleTrails() negates
\* config.showTrails; neither changes anything else of config, the particles,
\* the wells or the bounds, and the second of two calls in a row of the same
\* one restores config, particles and wells as they were before the first.
C16_TogglesFlipOneFlag ==
    [][/\ lastOp'.op = "togglePause" =>
            /\ config' = [config EXCEPT !.isPaused = ~config.isPaused]
            /\ UNCHANGED <<particles, gravityWells, canvasBounds>>
       /\ lastOp'.op = "toggleTrails" =>
            /\ config' = [config EXCEPT !.showTrails = ~config.showTrails]
            /\ UNCHANGED <<particles, gravityWells, canvasBounds>>
       /\ (lastOp'.op \in {"togglePause", "toggleTrails"} /\ lastOp.op = lastOp'.op) =>
            /\ config' = beforeConfig
            /\ particles' = before
            /\ gravityWells' = beforeWells]_vars

\* C16 witness: togglePause() resumed an engine that an earlier togglePause()
\* had paused, with trails switched off, a well in place and particles moved
C16_Witness ==
    /\ lastOp.op = "togglePause"
    /\ beforeConfig.isPaused
    /\ ~config.isPaused
    /\ ~config.showTrails
    /\ Len(gravityWells) > 0
    /\ ticks > 0

\* C17: in every reachable state the number of particles equals
\* config.particleCount, whatever updateConfig was handed.
C17_CountMatchesConfig == Len(particles) = config.particleCount

----------------------------------------------------------------------------
(* Claims about the host application, checked under HostSpec *)

\* until destroy() the browser holds exactly the request animationId names
OneFramePending ==
    IF animationId = 0 THEN scheduled = {} ELSE scheduled = {animationId}

\* C18: every run of the frame callback requests exactly one next frame,
\* whether or not a fault was raised in it; a fault raised inside
\* engine.update or engine.render does not leave that call (the frame is still
\* rendered); only destroy() takes the pending request away, so until
\* destroy() exactly one frame is pending in every state.
C18_LoopNeverHalts ==
    [][/\ OneFramePending
       /\ OneFramePending'
       /\ (animationId = 0) => (animationId' = 0)
       /\ lastOp'.op = "frame" =>
            /\ Cardinality(scheduled' \ scheduled) = 1
            /\ Cardinality(scheduled') = 1
            /\ (lastOp'.t \in {"update", "render"} => lastOp'.drawn.clear # "none")
       /\ lastOp'.op = "destroy" => scheduled' = {}
       /\ lastOp'.op \notin {"frame", "destroy"} => UNCHANGED <<scheduled, animationId>>]_vars

\* C18 witness: a frame in which GravityCanvasApp.update raised, after an
\* earlier frame, has its successor pending
C18_Witness ==
    /\ lastOp.op = "frame"
    /\ lastOp.t = "host"
    /\ ticks > 1
    /\ animationId > 2
    /\ scheduled = {animationId}

\* the position the event carried is finite and inside the canvas, edges included
OnCanvas(v, size) ==
    /\ v.x # NaN /\ v.y # NaN
    /\ 0 <= v.x /\ v.x <= size.width
    /\ 0 <= v.y /\ v.y <= size.height

\* C19: a pointer or touch event reaches engine.handleMouseInteraction exactly
\* when its position is finite with 0 <= x <= canvas.width and
\* 0 <= y <= canvas.height; any other event is dropped: no well is spawned and
\* no field of the engine changes.
C19_HostFiltersEvents ==
    [][/\ lastOp'.op = "handleMouseInteraction" => OnCanvas(lastOp'.v, canvas)
       /\ lastOp'.op = "dropped" =>
            /\ ~OnCanvas(lastOp'.v, canvas)
            /\ UNCHANGED <<engineVars, spawned>>]_vars

\* C19 witness: after a resize an event on the far corner of the first canvas
\* was dropped, the engine holding a well and having run
C19_Witness ==
    /\ lastOp.op = "dropped"
    /\ lastOp.v = Vec3(Width, Height, 0)
    /\ canvas # Bounds0
    /\ Len(gravityWells) = 1
    /\ gravityWells = beforeWells
    /\ ticks > 0

----------------------------------------------------------------------------
(* Claims about Particle3D, checked under ParticleSpec *)

\* the position update() computes before wrapping: where the particle stood
\* when update() was entered plus the velocity update() left
RawPosition(i) ==
    Vec3(before[i].position.x + particles[i].velocity.x,
         before[i].position.y + particles[i].velocity.y,
         before[i].position.z + particles[i].velocity.z)

InBox(pos, bounds) ==
    /\ pos.x >= 0 /\ pos.x <= bounds.width
    /\ pos.y >= 0 /\ pos.y <= bounds.height
    /\ pos.z >= 0 - ZBound /\ pos.z <= ZBound

Updated == lastOp.op = "update"

C7_TrailBounded ==
    \A i \in DOMAIN particles :
      Len(particles[i].trail) <= particles[i].config.maxTrailLength

\* C7 witness: an update() appended a point to a full trail
C7_Witness ==
    /\ Updated
    /\ Len(before[1].trail) = before[1].config.maxTrailLength
    /\ Len(particles[1].trail) = particles[1].config.maxTrailLength
    /\ particles[1].trail # before[1].trail
    /\ particles[1].trail[Len(particles[1].trail)] = particles[1].position

\* C8: an update() that carries a particle past a face of the volume leaves it
\* on the opposite face (x < 0 -> width, x > width -> 0, the same for y with
\* height, z < -100 -> 100, z > 100 -> -100) with an empty trail; an update()
\* that crosses no face leaves a non-empty trail.
C8_WrapAround ==
    Updated =>
      \A i \in DOMAIN particles :
        LET p   == particles[i]
            raw == RawPosition(i)
            w   == p.canvasBounds.width
            h   == p.canvasBounds.height
        IN /\ (raw.x < 0 => p.position.x = w)
           /\ (raw.x > w => p.position.x = 0)
           /\ (raw.y < 0 => p.position.y = h)
           /\ (raw.y > h => p.position.y = 0)
           /\ (raw.z < 0 - ZBound => p.position.z = ZBound)
           /\ (raw.z > ZBound => p.position.z = 0 - ZBound)
           /\ (~InBox(raw, p.canvasBounds) => p.trail = << >>)
           /\ (InBox(raw, p.canvasBounds) => p.trail # << >>)

\* C8 witness: an update() drove x below 0 while the trail was not empty
C8_Witness ==
    /\ Updated
    /\ RawPosition(1).x < 0
    /\ before[1].trail # << >>
    /\ particles[1].position.x = particles[1].canvasBounds.width

C20_DenominatorNeverZero ==
    \A i \in DOMAIN particles :
      /\ particles[i].position.z + ZBound # 0
      /\ particles[i].position.z > 0 - ZBound
      /\ \A k \in DOMAIN particles[i].trail : particles[i].trail[k].z > 0 - ZBound

----------------------------------------------------------------------------
(* Claims about GravityWell, checked under WellSpec *)

\* C10: in every reachable state the strength of every well is >= 0: it is the
\* absolute value of the strength its constructor was handed, and update,
\* applyForceToParticle and draw leave it so.
C10_StrengthNonNegative ==
    \A i \in DOMAIN gravityWells :
      /\ gravityWells[i].strength >= 0
      /\ gravityWells[i].strength = Abs(gravityWells[i].asked)

\* C10 witness: a well built with strength -50 holds 50 after it has been aged
\* and has pulled on the particle
C10_Witness ==
    /\ gravityWells[1].asked = 0 - LeftStrength
    /\ gravityWells[1].strength = LeftStrength
    /\ gravityWells[1].life > 0
    /\ particles[1].acceleration # Zero3

\* what applyForceToParticle added to the particle's acceleration
AccelerationAdded ==
    Vec3(particles[1].acceleration.x - before[1].acceleration.x,
         particles[1].acceleration.y - before[1].acceleration.y,
         particles[1].acceleration.z - before[1].acceleration.z)

\* from the particle to the well, the well standing at z = 0
TowardWell ==
    Vec3(gravityWells[1].position.x - before[1].position.x,
         gravityWells[1].position.y - before[1].position.y,
         0 - before[1].position.z)

\* the square of the distance between particle and well
DistanceSquared == Sq(TowardWell.x) + Sq(TowardWell.y) + Sq(TowardWell.z)

\* 2 < distance < maxRange
WithinRange ==
    /\ DistanceSquared > 4
    /\ DistanceSquared < Sq(gravityWells[1].config.maxRange)

AppliedForce == lastOp.op = "applyForceToParticle"

\* the force component along an axis where the well is c away is at least half
\* a grid step: |c| / d * strength * 100 / (max(d, 5)^2 + 100) * |multiplier| >= 1/2
Perceptible(c) ==
    LET f   == gravityWells[1].strength * (IF gravityWells[1].isRepulsive THEN 10 ELSE 6)
        den == (IF DistanceSquared > 25 THEN DistanceSquared ELSE 25) + 100
    IN 4 * Sq(c) * Sq(f) >= DistanceSquared * Sq(den)

\* C12: for a particle within range of the well (2 < distance < maxRange),
\* applyForceToParticle adds to the acceleration a vector along the line
\* between them: on every axis the added component points toward the well if
\* the well is attractive and away from it if repulsive, it is zero where the
\* coordinates coincide, and it is not zero where the force is at least half a
\* grid step.
C12_ForceDirection ==
    (AppliedForce /\ WithinRange) =>
      LET s == IF gravityWells[1].isRepulsive THEN 0 - 1 ELSE 1
          a == AccelerationAdded
          t == TowardWell
      IN /\ Sign(a.x) \in {0, s * Sign(t.x)}
         /\ Sign(a.y) \in {0, s * Sign(t.y)}
         /\ Sign(a.z) \in {0, s * Sign(t.z)}
         /\ (Perceptible(t.x) => a.x # 0)
         /\ (Perceptible(t.y) => a.y # 0)
         /\ (Perceptible(t.z) => a.z # 0)

\* C12 witness: a repulsive well pushed a particle standing to its right, on
\* its own y and z, further right
C12_Witness ==
    /\ AppliedForce
    /\ WithinRange
    /\ gravityWells[1].isRepulsive
    /\ TowardWell.x < 0
    /\ TowardWell.y = 0
    /\ TowardWell.z = 0
    /\ AccelerationAdded.x > 0
    /\ AccelerationAdded.y = 0
    /\ AccelerationAdded.z = 0

\* C13: applyForceToParticle leaves the particle untouched unless
\* 2 < distance < maxRange: at distance <= 2 (the particle on the well
\* included) and at distance >= maxRange the acceleration is what it was; in
\* no case does it touch position, velocity or trail, or the well.
C13_HardCutoff ==
    AppliedForce =>
      /\ (~WithinRange => particles[1].acceleration = before[1].acceleration)
      /\ particles[1].position = before[1].position
      /\ particles[1].velocity = before[1].velocity
      /\ particles[1].trail = before[1].trail
      /\ gravityWells = beforeWells

\* C13 witness: a well of positive strength was applied to a particle at
\* exactly maxRange and left its acceleration alone
C13_Witness ==
    /\ AppliedForce
    /\ DistanceSquared = Sq(gravityWells[1].config.maxRange)
    /\ gravityWells[1].strength > 0
    /\ particles[1].acceleration = before[1].acceleration

\* C14: isDead() is false at every age from 0 to maxLife and true from
\* maxLife + 1 on; update() adds exactly 1 to the age, and a well that is dead
\* stays dead under update, applyForceToParticle and draw.
C14_DeadStrictly ==
    [][LET well == gravityWells[1]
           next == gravityWells'[1]
       IN /\ isDead(well) <=> well.life >= well.config.maxLife + 1
          /\ isDead(next) <=> next.life >= next.config.maxLife + 1
          /\ (lastOp'.op = "update" => next.life = well.life + 1)
          /\ (lastOp'.op # "new" /\ isDead(well) => isDead(next))]_vars

\* C14 witness: the update() that took the well from age maxLife to
\* maxLife + 1 made it dead
C14_Witness ==
    /\ lastOp.op = "update"
    /\ beforeWells[1].life = beforeWells[1].config.maxLife
    /\ ~isDead(beforeWells[1])
    /\ gravityWells[1].life = gravityWells[1].config.maxLife + 1
    /\ isDead(gravityWells[1])

----------------------------------------------------------------------------
(* Claims about resizing and reconfiguring, checked under ConfigSpec *)

\* an update() that was not skipped for the pause
Stepped == lastOp.op = "update" /\ ~skipsUpdate(beforeConfig)

\* C21: updateCanvasBounds(newBounds) moves no particle, and from the next
\* update() on every particle that already existed wraps at the new bounds: a
\* step that carries x below 0 leaves x at the engine's current width, a step
\* that carries x past the engine's current width leaves x at 0 (the same for
\* y with the height).
C21_WrapUsesNewBounds ==
    /\ lastOp.op = "updateCanvasBounds" => particles = before
    /\ (Stepped /\ isValidNumber(canvasBounds.width)) =>
         \A i \in DOMAIN particles :
           LET p   == particles[i]
               raw == RawPosition(i)
           IN /\ (raw.x < 0 => p.position.x = canvasBounds.width)
              /\ (raw.x > canvasBounds.width => p.position.x = 0)
              /\ (raw.y < 0 => p.position.y = canvasBounds.height)
              /\ (raw.y > canvasBounds.height => p.position.y = 0)

----------------------------------------------------------------------------
(* Claims about the order of the steps of update(), checked under ReconfigSpec *)

\* the wells of the collection update() met that are still alive once aged
Survivors == SelectSeq(beforeWells, LAMBDA w : ~isDead(updateWell(w)))

\* the wells of the collection update() met that this update() removed
Culled == { k \in DOMAIN beforeWells : isDead(updateWell(beforeWells[k])) }

\* C22: inside one update() the wells are aged and culled before any force is
\* computed: every particle leaves the update() as the forces of exactly the
\* wells that survived the cull make it, and a well removed in this update()
\* contributes no force to it.
C22_CullThenForce ==
    Stepped =>
      /\ Len(gravityWells) = Len(Survivors)
      /\ \A k \in DOMAIN gravityWells : gravityWells[k].id = Survivors[k].id
      /\ \A i \in DOMAIN particles :
           particles[i] = updateParticle(applyWellsFrom(Survivors, 1, before[i]))

\* C22 witness: an update() removed a well that had a particle in range and
\* would have pushed it, and the particle moved as if the well were not there
C22_Witness ==
    /\ Stepped
    /\ \E k \in Culled :
         /\ inRange(beforeWells[k], before[1])
         /\ wellForce(beforeWells[k], before[1]) # Zero3
    /\ particles[1] = updateParticle(applyWellsFrom(Survivors, 1, before[1]))
    /\ particles[1] # updateParticle(applyWellsFrom(beforeWells, 1, before[1]))

\* C23: removing wells during the ageing pass is safe: one update() ages every
\* well of the collection exactly once and removes exactly the wells whose age
\* then exceeds their maxLife, also when several wells die in the same tick,
\* next to each other or not; the wells that remain keep their order.
C23_SafeRemoval ==
    Stepped =>
      /\ gravityWells = [k \in 1..Len(Survivors) |-> updateWell(Survivors[k])]
      /\ \A k \in DOMAIN gravityWells : ~isDead(gravityWells[k])
      /\ Len(gravityWells) + Cardinality(Culled) = Len(beforeWells)

\* C23 witness: an update() removed two wells that were not neighbours and
\* kept, aged by one, the well that stood between them
C23_Witness ==
    /\ Stepped
    /\ Len(beforeWells) = 3
    /\ Culled = {1, 3}
    /\ gravityWells = << updateWell(beforeWells[2]) >>

----------------------------------------------------------------------------
(* Claims about the settings held by particles and wells, checked under
   SnapshotSpec *)

\* the particleCount handed to the last updateConfig, NaN if none was given
Requested == lastOp.v.x

\* the last call was an updateConfig that asked for no other particleCount
\* than the collection has
Resettled ==
    /\ lastOp.op = "updateConfig"
    /\ Requested \in {NaN, Len(before)}

\* C25: particles and wells hold the settings they were built with: an
\* updateConfig that changes the particle or gravityWell settings and leaves
\* particleCount alone alters no particle and no well that exists, and an
\* update() leaves the settings of each with it; only a well spawned later
\* takes the new gravityWell settings and only re-initialised particles take
\* the new particle settings.
C25_SettingsSnapshot ==
    /\ lastOp.op = "updateConfig" => gravityWells = beforeWells
    /\ Resettled => particles = before
    /\ (lastOp.op = "updateConfig" /\ ~Resettled) =>
         \A i \in DOMAIN particles : particles[i].config = config.particle
    /\ Stepped =>
         /\ \A i \in DOMAIN particles : particles[i].config = before[i].config
         /\ \A k \in DOMAIN gravityWells :
              \E j \in DOMAIN beforeWells :
                /\ beforeWells[j].id = gravityWells[k].id
                /\ beforeWells[j].config = gravityWells[k].config
    /\ (lastOp.op = "handleMouseInteraction" /\ Len(gravityWells) > Len(beforeWells)) =>
         /\ gravityWells[Len(gravityWells)].config = config.gravityWell
         /\ SubSeq(gravityWells, 1, Len(beforeWells)) = beforeWells

\* C25 witness: after new particle and gravityWell settings, a well spawned
\* before them holds the old settings next to a well spawned after them that
\* holds the new ones, and the particles hold the old particle settings
C25_Witness ==
    /\ lastOp.op = "handleMouseInteraction"
    /\ Len(gravityWells) = 2
    /\ gravityWells[1].config = WellConfig
    /\ gravityWells[2].config = ShortLived
    /\ config.gravityWell = ShortLived
    /\ config.particle = Slow
    /\ \A i \in DOMAIN particles : particles[i].config = ParticleConfig

----------------------------------------------------------------------------
(* Claims about numeric faults in Particle3D, checked under OverflowSpec *)

\* update() met a velocity or a position that was not finite on its way
Poisoned(p) ==
    LET v == accelerate(p)
        w == limitSpeed(v, p.config.maxSpeed)
    IN \/ ~isValidVector3D(v)
       \/ ~isValidVector3D(w)
       \/ ~isValidVector3D(Vec3(Plus(p.position.x, w.x), Plus(p.position.y, w.y),
                                Plus(p.position.z, w.z)))

\* C24: no particle is left NaN-poisoned: after any applyForce and update
\* calls every component of position, velocity and acceleration is finite; an
\* applyForce with a non-finite force leaves the acceleration as it was; an
\* update() that meets a non-finite intermediate state leaves the particle at
\* an in-bounds position with zero velocity, zero acceleration and an empty
\* trail.
C24_NeverPoisoned ==
    /\ \A i \in DOMAIN particles :
         /\ isValidVector3D(particles[i].position)
         /\ isValidVector3D(particles[i].velocity)
         /\ isValidVector3D(particles[i].acceleration)
    /\ (lastOp.op = "applyForce" /\ ~isValidVector3D(lastOp.v)) =>
         particles = before
    /\ (Updated /\ Poisoned(before[1])) =>
         /\ InBox(particles[1].position, particles[1].canvasBounds)
         /\ particles[1].velocity = Zero3
         /\ particles[1].acceleration = Zero3
         /\ particles[1].trail = << >>

----------------------------------------------------------------------------
(* The backend: Redis helpers, src/backend/src/config/redis.ts *)

\* JSON.stringify(value) and JSON.parse(text); the values cached here are
\* records of strings, numbers and booleans, which the round trip keeps
stringify(value) == [json |-> value]

parse(text) == text.json

\* the keys of the store: `preset:<id>`, `user_presets:<user>:<page>:<limit>`,
\* `user_presets:<user>`, `public_presets`, `room:<id>`,
\* `session:refresh_token:<user>`, `session:session:<user>`
Key(kind, user, a, b) == [kind |-> kind, user |-> user, a |-> a, b |-> b]

PresetKey(presetId) == Key("preset", Null, presetId, Null)

ListKey(userId, page, limit) == Key("user_presets", userId, page, limit)

UserListKey(userId) == Key("user_presets", userId, Null, Null)

PublicKey == Key("public_presets", Null, Null, Null)

RoomKey(roomId) == Key("room", Null, roomId, Null)

\* setCache(key, value, ttl): redisClient.setEx(key, ttl, JSON.stringify(value))
setCache(store, key, value) ==
    [k \in DOMAIN store \cup {key} |-> IF k = key THEN stringify(value) ELSE store[k]]

\* getCache(key) returns a value: redisClient.get(key) is not null
hasCache(store, key) == key \in DOMAIN store

\* getCache(key): JSON.parse(cached)
getCache(store, key) == parse(store[key])

\* deleteCache(key): redisClient.del(key) removes that one key
deleteCache(store, key) == [k \in DOMAIN store \ {key} |-> store[k]]

\* setSession / deleteSession: the key with `session:` put before it
SessionKey(kind, user) == Key("session", user, kind, Null)

----------------------------------------------------------------------------
(* PresetSpec: PresetService, src/unnamed/part_001, each method run from call
   to return *)

\* presets created in one run
MaxPresets == 2

Users == {1, 2}

\* the users who save presets and list their own
Authors == {1}

Pages == {1, 2}

Limits == {1}

\* mapDbRowToPreset(row)
mapDbRowToPreset(presetId, row) ==
    [id |-> presetId, userId |-> row.userId, name |-> row.name,
     isPublic |-> row.isPublic]

\* the ids of the rows WHERE user_id = userId ORDER BY created_at DESC, the
\* rows of ids above bound left out: ids are handed out in creation order
RECURSIVE rowsOf(_, _, _)
rowsOf(table, userId, bound) ==
    IF bound = 0
    THEN << >>
    ELSE IF bound \in DOMAIN table /\ table[bound].userId = userId
         THEN <<bound>> \o rowsOf(table, userId, bound - 1)
         ELSE rowsOf(table, userId, bound - 1)

\* Math.ceil(total / limit)
CeilDiv(total, limit) == (total + limit - 1) \div limit

\* getUserPresets, lines 37-61: COUNT(*), the SELECT with LIMIT and OFFSET
\* and the response built from them
listing(table, userId, page, limit) ==
    LET ids    == rowsOf(table, userId, MaxPresets + 1)
        offset == (page - 1) * limit
        last   == IF offset + limit < Len(ids) THEN offset + limit ELSE Len(ids)
        chosen == SubSeq(ids, offset + 1, last)
    IN [items      |-> [i \in DOMAIN chosen |-> mapDbRowToPreset(chosen[i], table[chosen[i]])],
        total      |-> Len(ids),
        page       |-> page,
        limit      |-> limit,
        totalPages |-> CeilDiv(Len(ids), limit)]

\* what a method returns: null, or a preset
Nothing == [found |-> FALSE]

Found(preset) == [found |-> TRUE, preset |-> preset]

\* getPresetById(presetId, userId): what it returns and the store it leaves
getPresetById(store, table, presetId, userId) ==
    IF hasCache(store, PresetKey(presetId))
    THEN [result |-> Found(getCache(store, PresetKey(presetId))), store |-> store]
    ELSE IF presetId \notin DOMAIN table
    THEN [result |-> Nothing, store |-> store]
    ELSE LET preset == mapDbRowToPreset(presetId, table[presetId])
         IN IF ~preset.isPublic /\ preset.userId # userId
            THEN [result |-> Nothing, store |-> store]
            ELSE [result |-> Found(preset),
                  store  |-> setCache(store, PresetKey(presetId), preset)]

\* the simulation is not part of the backend specifications
NoSimulation ==
    /\ particles = << >>
    /\ gravityWells = << >>
    /\ config = Config0
    /\ canvasBounds = Bounds0
    /\ lastFrameTime = 0
    /\ frameCount = 0
    /\ lastFpsUpdate = 0
    /\ currentFps = InitialFps
    /\ now = 0
    /\ lastOp = NoOp
    /\ before = << >>
    /\ beforeWells = << >>
    /\ beforeConfig = Config0
    /\ ticks = 0
    /\ spawned = 0
    /\ NoHost

BackendInit == NoSimulation /\ NoBackend

\* presetService.createPreset(userId, { name, isPublic })
CreatePreset(userId, name, isPublic) ==
    /\ issued < MaxPresets
    /\ LET presetId == issued + 1
           row      == [userId |-> userId, name |-> name, isPublic |-> isPublic]
           cleared  == deleteCache(redis, UserListKey(userId))
       IN /\ issued' = presetId
          /\ presets' = [k \in DOMAIN presets \cup {presetId} |->
                           IF k = presetId THEN row ELSE presets[k]]
          /\ redis' = IF isPublic THEN deleteCache(cleared, PublicKey) ELSE cleared
          /\ response' = [op |-> "createPreset", user |-> userId, id |-> presetId,
                          result |-> Found(mapDbRowToPreset(presetId, row))]
    /\ UNCHANGED <<roomVars, authVars>>
    /\ UNCHANGED frontVars

\* presetService.getUserPresets(userId, page, limit)
GetUserPresets(userId, page, limit) ==
    /\ LET cacheKey == ListKey(userId, page, limit)
       IN IF hasCache(redis, cacheKey)
          THEN /\ response' = [op |-> "getUserPresets", user |-> userId,
                               page |-> page, limit |-> limit,
                               result |-> getCache(redis, cacheKey)]
               /\ UNCHANGED redis
          ELSE LET fresh == listing(presets, userId, page, limit)
               IN /\ redis' = setCache(redis, cacheKey, fresh)
                  /\ response' = [op |-> "getUserPresets", user |-> userId,
                                  page |-> page, limit |-> limit, result |-> fresh]
    /\ UNCHANGED <<presets, roomVars, authVars, issued>>
    /\ UNCHANGED frontVars

\* presetService.getPresetById(presetId, userId); userId Null when not given
GetPresetById(presetId, userId) ==
    /\ LET got == getPresetById(redis, presets, presetId, userId)
       IN /\ redis' = got.store
          /\ response' = [op |-> "getPresetById", user |-> userId, id |-> presetId,
                          result |-> got.result]
    /\ UNCHANGED <<presets, roomVars, authVars, issued>>
    /\ UNCHANGED frontVars

\* the fields an UpdatePresetRequest sets
UpdateData == { [isPublic |-> TRUE], [name |-> "renamed"] }

\* presetService.updatePreset(presetId, userId, updateData)
UpdatePreset(presetId, userId, updateData) ==
    /\ LET got      == getPresetById(redis, presets, presetId, userId)
           existing == got.result
       IN IF ~existing.found \/ existing.preset.userId # userId
             \/ presetId \notin DOMAIN presets
          THEN /\ redis' = got.store
               /\ response' = [op |-> "updatePreset", user |-> userId, id |-> presetId,
                               result |-> Nothing]
               /\ UNCHANGED presets
          ELSE LET row     == updateData @@ presets[presetId]
                   updated == mapDbRowToPreset(presetId, row)
                   cleared == deleteCache(deleteCache(got.store, PresetKey(presetId)),
                                          UserListKey(userId))
               IN /\ presets' = [presets EXCEPT ![presetId] = row]
                  /\ redis' = IF existing.preset.isPublic \/ updated.isPublic
                              THEN deleteCache(cleared, PublicKey) ELSE cleared
                  /\ response' = [op |-> "updatePreset", user |-> userId,
                                  id |-> presetId, result |-> Found(updated)]
    /\ UNCHANGED <<roomVars, authVars, issued>>
    /\ UNCHANGED frontVars

\* presetService.deletePreset(presetId, userId)
DeletePreset(presetId, userId) ==
    /\ LET got    == getPresetById(redis, presets, presetId, userId)
           preset == got.result
       IN IF ~preset.found \/ preset.preset.userId # userId
             \/ presetId \notin DOMAIN presets \/ presets[presetId].userId # userId
          THEN /\ redis' = got.store
               /\ response' = [op |-> "deletePreset", user |-> userId, id |-> presetId,
                               result |-> Nothing]
               /\ UNCHANGED presets
          ELSE LET cleared == deleteCache(deleteCache(got.store, PresetKey(presetId)),
                                          UserListKey(userId))
               IN /\ presets' = [k \in DOMAIN presets \ {presetId} |-> presets[k]]
                  /\ redis' = IF preset.preset.isPublic
                              THEN deleteCache(cleared, PublicKey) ELSE cleared
                  /\ response' = [op |-> "deletePreset", user |-> userId,
                                  id |-> presetId, result |-> preset]
    /\ UNCHANGED <<roomVars, authVars, issued>>
    /\ UNCHANGED frontVars

PresetNext ==
    \/ \E userId \in Authors : CreatePreset(userId, "new", FALSE)
    \/ \E userId \in Authors, page \in Pages, limit \in Limits :
         GetUserPresets(userId, page, limit)
    \/ \E presetId \in 1..MaxPresets, userId \in Users \cup {Null} :
         GetPresetById(presetId, userId)
    \/ \E presetId \in 1..MaxPresets, userId \in Users, updateData \in UpdateData :
         UpdatePreset(presetId, userId, updateData)
    \/ \E presetId \in 1..MaxPresets, userId \in Users : DeletePreset(presetId, userId)

PresetSpec == BackendInit /\ [][PresetNext]_vars

----------------------------------------------------------------------------
(* Claims about PresetService, checked under PresetSpec *)

\* C26: getPresetById never returns a preset that is not public to a caller
\* who is not its owner or who gives no userId, also after the owner's own
\* read has stored the preset under `preset:<id>`.
C26_PrivateStaysPrivate ==
    (response.op = "getPresetById" /\ response.result.found) =>
      LET preset == response.result.preset
      IN \/ preset.userId = response.user
         \/ /\ preset.isPublic
            /\ preset.id \in DOMAIN presets => presets[preset.id].isPublic

\* C29: the cached listings follow the writes: whichever pages were cached
\* before a createPreset, updatePreset or deletePreset, a getUserPresets
\* returns the listing the table holds when it is called.
C29_ListingFollowsWrites ==
    response.op = "getUserPresets" =>
      response.result = listing(presets, response.user, response.page, response.limit)

----------------------------------------------------------------------------
(* AuthSpec: AuthService, src/backend/src/services/authService.ts, each
   method run from call to return *)

\* calls of generateTokens in one run
MaxTokens == 3

\* a JSON web token: its payload and whether jwt.verify accepts it (signed
\* with JWT_SECRET and not expired); serial stands for the iat of the payload
Token(userId, type, serial) ==
    [userId |-> userId, type |-> type, serial |-> serial, valid |-> TRUE]

\* a token that jwt.verify rejects
Forged == [userId |-> 1, type |-> "refresh", serial |-> 0, valid |-> FALSE]

\* generateTokens(user), the serial-th pair
generateTokens(userId, serial) ==
    [accessToken  |-> Token(userId, "access", serial),
     refreshToken |-> Token(userId, "refresh", serial)]

\* storeRefreshToken(userId, refreshToken):
\* setSession(`refresh_token:${userId}`, { token: refreshToken }, ttl)
storeRefreshToken(store, userId, refreshToken) ==
    setCache(store, SessionKey("refresh_token", userId), [token |-> refreshToken])

\* what refreshToken returns or throws
Issued(tokens) == [ok |-> TRUE, tokens |-> tokens]

Thrown(message) == [ok |-> FALSE, error |-> message]

\* authService.login(credentials) of the user userId; accepted is whether the
\* user exists and bcrypt.compare accepts the password
Login(userId, accepted) ==
    /\ IF accepted
       THEN /\ issued < MaxTokens
            /\ LET tokens == generateTokens(userId, issued + 1)
               IN /\ issued' = issued + 1
                  /\ signed' = signed \cup {tokens.accessToken, tokens.refreshToken}
                  /\ redis' = storeRefreshToken(redis, userId, tokens.refreshToken)
                  /\ response' = [op |-> "login", user |-> userId,
                                  result |-> Issued(tokens)]
       ELSE /\ response' = [op |-> "login", user |-> userId,
                            result |-> Thrown("Invalid credentials")]
            /\ UNCHANGED <<issued, signed, redis>>
    /\ UNCHANGED <<presets, roomVars, revoked>>
    /\ UNCHANGED frontVars

\* authService.refreshToken(refreshToken)
RefreshToken(refreshToken) ==
    /\ IF refreshToken.valid /\ refreshToken.type = "refresh"
          /\ refreshToken.userId \in Users
       THEN /\ issued < MaxTokens
            /\ LET tokens == generateTokens(refreshToken.userId, issued + 1)
               IN /\ issued' = issued + 1
                  /\ signed' = signed \cup {tokens.accessToken, tokens.refreshToken}
                  /\ redis' = storeRefreshToken(redis, refreshToken.userId,
                                                tokens.refreshToken)
                  /\ response' = [op |-> "refreshToken", token |-> refreshToken,
                                  result |-> Issued(tokens)]
       ELSE /\ response' = [op |-> "refreshToken", token |-> refreshToken,
                            result |-> Thrown("Invalid refresh token")]
            /\ UNCHANGED <<issued, signed, redis>>
    /\ UNCHANGED <<presets, roomVars, revoked>>
    /\ UNCHANGED frontVars

\* authService.logout(userId, refreshToken)
Logout(userId, refreshToken) ==
    /\ LET cleared == deleteCache(redis, SessionKey("refresh_token", userId))
       IN redis' = IF refreshToken.valid
                   THEN deleteCache(cleared, SessionKey("session", refreshToken.userId))
                   ELSE cleared
    /\ revoked' = revoked \cup {refreshToken}
    /\ response' = [op |-> "logout", user |-> userId, token |-> refreshToken]
    /\ UNCHANGED <<presets, roomVars, signed, issued>>
    /\ UNCHANGED frontVars

AuthNext ==
    \/ \E userId \in Users, accepted \in BOOLEAN : Login(userId, accepted)
    \/ \E refreshToken \in signed \cup {Forged} : RefreshToken(refreshToken)
    \/ \E refreshToken \in signed \cup {Forged} :
         Logout(refreshToken.userId, refreshToken)

AuthSpec == BackendInit /\ [][AuthNext]_vars

----------------------------------------------------------------------------
(* Claims about AuthService, checked under AuthSpec *)

\* C30: logout revokes the refresh token: a refreshToken call with a token
\* that a completed logout was given fails with 'Invalid refresh token' and
\* issues no new tokens.
C30_LogoutRevokes ==
    (response.op = "refreshToken" /\ response.token \in revoked) =>
      response.result = Thrown("Invalid refresh token")

----------------------------------------------------------------------------
(* RoomSpec: SocketService, src/backend/src/services/socketService.ts.  A
   handler runs without interruption from one await of Redis to the next;
   between two awaits the handlers of other sockets run.  An await of an
   async function that does no I/O (getPublicRooms, leaveRoom returning
   early) lets no new event in, and the handler is carried on to its next
   await of Redis.  Redis answers its commands in the order they were sent,
   so a command takes effect where it is issued.  A socket has one handler
   in flight at a time; roomObjects holds the RoomData objects by id, also
   those the Map has dropped, as a suspended handler still holds them. *)

\* sockets connected in one run; the user of socket s is user s
MaxSockets == 3

\* rooms created in one run
MaxRooms == 2

\* the maxParticipants given to create-room
MaxParticipants == 2

Sockets == 1..MaxSockets

\* the elements of a sequence
Range(seq) == { seq[i] : i \in DOMAIN seq }

\* SocketService.leaveRoom(socket, roomId), lines 340-362, up to its await:
\* the Map, the RoomData objects and the store it leaves, and whether it
\* reached the await (it returns early when the Map has no such room)
leaveRoom(rs, objs, store, roomId, userId) ==
    IF roomId \notin rs
    THEN [rooms |-> rs, objects |-> objs, store |-> store, awaits |-> FALSE]
    ELSE LET room      == objs[roomId]
             remaining == SelectSeq(room.participants, LAMBDA id : id # userId)
         IN IF Len(remaining) = 0
            THEN [rooms   |-> rs \ {roomId},
                  objects |-> [objs EXCEPT ![roomId].participants = remaining],
                  store   |-> deleteCache(store, RoomKey(roomId)),
                  awaits  |-> TRUE]
            ELSE LET left == [room EXCEPT !.participants = remaining,
                                          !.hostId = IF room.hostId = userId
                                                     THEN remaining[1]
                                                     ELSE room.hostId]
                 IN [rooms   |-> rs \cup {roomId},
                     objects |-> [objs EXCEPT ![roomId] = left],
                     store   |-> setCache(store, RoomKey(roomId), left),
                     awaits  |-> TRUE]

\* the socket s with its handler suspended at the await pc
Suspended(s, pc, target, wanted) ==
    [sockets EXCEPT ![s].pc = pc, ![s].target = target, ![s].wanted = wanted]

\* the socket s with its handler returned
Returned(s) ==
    [sockets EXCEPT ![s].pc = "idle", ![s].target = Null, ![s].wanted = Null,
                    ![s].fetched = Nothing]

\* handleCreateRoom, lines 105-118: the room is made and stored, and the
\* handler awaits setCache
createRoom(s, sks, rs, objs, store, maxParticipants) ==
    LET roomId == issued + 1
        room   == [id |-> roomId, hostId |-> s, participants |-> <<s>>,
                   maxParticipants |-> maxParticipants]
    IN /\ issued' = roomId
       /\ rooms' = rs \cup {roomId}
       /\ roomObjects' = [k \in DOMAIN objs \cup {roomId} |->
                            IF k = roomId THEN room ELSE objs[k]]
       /\ redis' = setCache(store, RoomKey(roomId), room)
       /\ sockets' = [sks EXCEPT ![s].pc = "create_stored", ![s].target = roomId,
                                 ![s].wanted = Null]

\* create-room handlers that have not made their room yet
Creating == { s \in Sockets : sockets[s].pc = "create_left" }

\* socket.on('create-room'): handleCreateRoom up to its first await; valid is
\* whether the data holds a name and a config
CreateRoom(s, valid, maxParticipants) ==
    /\ sockets[s].connected /\ sockets[s].pc = "idle"
    /\ issued + Cardinality(Creating) < MaxRooms
    /\ IF ~valid
       THEN UNCHANGED <<rooms, roomObjects, redis, sockets, issued>>
       ELSE IF sockets[s].roomId # Null
       THEN LET left == leaveRoom(rooms, roomObjects, redis, sockets[s].roomId, s)
            IN IF left.awaits
               THEN /\ rooms' = left.rooms
                    /\ roomObjects' = left.objects
                    /\ redis' = left.store
                    /\ sockets' = Suspended(s, "create_left", Null, maxParticipants)
                    /\ UNCHANGED issued
               ELSE createRoom(s, sockets, rooms, roomObjects, redis, maxParticipants)
       ELSE createRoom(s, sockets, rooms, roomObjects, redis, maxParticipants)
    /\ UNCHANGED <<presets, response, authVars>>
    /\ UNCHANGED frontVars

\* handleCreateRoom resumed after leaveRoom's await: leaveRoom, lines 364-374,
\* clears user.roomId, then lines 105-118
CreateRoomLeft(s) ==
    /\ sockets[s].pc = "create_left"
    /\ createRoom(s, [sockets EXCEPT ![s].roomId = Null], rooms, roomObjects, redis,
                  sockets[s].wanted)
    /\ UNCHANGED <<presets, response, authVars>>
    /\ UNCHANGED frontVars

\* handleCreateRoom resumed after setCache, lines 120-128: user.roomId = roomId
CreateRoomStored(s) ==
    /\ sockets[s].pc = "create_stored"
    /\ sockets' = [Returned(s) EXCEPT ![s].roomId = sockets[s].target]
    /\ UNCHANGED <<rooms, roomObjects, redis, issued>>
    /\ UNCHANGED <<presets, response, authVars>>
    /\ UNCHANGED frontVars

\* handleJoinRoom, lines 174-176: the push on the RoomData object the
\* handler holds, rooms.set and the await of setCache
joinPush(s, sks, rs, objs, store, roomId) ==
    LET room == [objs[roomId] EXCEPT !.participants = Append(@, s)]
    IN /\ rooms' = rs \cup {roomId}
       /\ roomObjects' = [objs EXCEPT ![roomId] = room]
       /\ redis' = setCache(store, RoomKey(roomId), room)
       /\ sockets' = [sks EXCEPT ![s].pc = "join_stored", ![s].target = roomId]

\* handleJoinRoom, lines 160-176, with the room object in hand: the tests,
\* leaveRoom up to its await if the user is in a room, else the push
joinChecked(s, sks, rs, objs, store, roomId) ==
    LET room == objs[roomId]
    IN IF Len(room.participants) >= room.maxParticipants \/ s \in Range(room.participants)
       THEN /\ sockets' = [sks EXCEPT ![s].pc = "idle", ![s].target = Null,
                                      ![s].fetched = Nothing]
            /\ rooms' = rs
            /\ roomObjects' = objs
            /\ UNCHANGED redis
       ELSE IF sks[s].roomId # Null
       THEN LET left == leaveRoom(rs, objs, store, sks[s].roomId, s)
            IN IF left.awaits
               THEN /\ rooms' = left.rooms
                    /\ roomObjects' = left.objects
                    /\ redis' = left.store
                    /\ sockets' = [sks EXCEPT ![s].pc = "join_left",
                                              ![s].target = roomId,
                                              ![s].fetched = Nothing]
               ELSE joinPush(s, sks, rs, objs, store, roomId)
       ELSE joinPush(s, sks, rs, objs, store, roomId)

\* socket.on('join-room'): handleJoinRoom up to its first await
JoinRoom(s, roomId) ==
    /\ sockets[s].connected /\ sockets[s].pc = "idle"
    /\ IF roomId \in rooms
       THEN joinChecked(s, sockets, rooms, roomObjects, redis, roomId)
       ELSE /\ sockets' =
                 [sockets EXCEPT ![s].pc = "join_fetched", ![s].target = roomId,
                                 ![s].fetched =
                                    IF hasCache(redis, RoomKey(roomId))
                                    THEN Found(getCache(redis, RoomKey(roomId)))
                                    ELSE Nothing]
            /\ UNCHANGED <<rooms, roomObjects, redis>>
    /\ UNCHANGED issued
    /\ UNCHANGED <<presets, response, authVars>>
    /\ UNCHANGED frontVars

\* handleJoinRoom resumed after getCache, lines 149-176
JoinRoomFetched(s) ==
    /\ sockets[s].pc = "join_fetched"
    /\ LET roomId == sockets[s].target
           got    == sockets[s].fetched
       IN IF got.found
          THEN joinChecked(s, sockets, rooms \cup {roomId},
                           [k \in DOMAIN roomObjects \cup {roomId} |->
                              IF k = roomId THEN got.preset ELSE roomObjects[k]],
                           redis, roomId)
          ELSE /\ sockets' = Returned(s)
               /\ UNCHANGED <<rooms, roomObjects, redis>>
    /\ UNCHANGED issued
    /\ UNCHANGED <<presets, response, authVars>>
    /\ UNCHANGED frontVars

\* handleJoinRoom resumed after leaveRoom's await: leaveRoom, lines 364-374,
\* clears user.roomId, then lines 174-176
JoinRoomLeft(s) ==
    /\ sockets[s].pc = "join_left"
    /\ joinPush(s, [sockets EXCEPT ![s].roomId = Null], rooms, roomObjects, redis,
                sockets[s].target)
    /\ UNCHANGED issued
    /\ UNCHANGED <<presets, response, authVars>>
    /\ UNCHANGED frontVars

\* handleJoinRoom resumed after setCache, lines 178-191: user.roomId = roomId
JoinRoomStored(s) ==
    /\ sockets[s].pc = "join_stored"
    /\ sockets' = [Returned(s) EXCEPT ![s].roomId = sockets[s].target]
    /\ UNCHANGED <<rooms, roomObjects, redis, issued>>
    /\ UNCHANGED <<presets, response, authVars>>
    /\ UNCHANGED frontVars

\* socket.on('leave-room') and socket.on('disconnect'): handleLeaveRoom and
\* handleDisconnect up to the await of leaveRoom; a disconnected socket sends
\* no further event
LeaveRoom(s, disconnect) ==
    /\ sockets[s].connected /\ sockets[s].pc = "idle"
    /\ LET gone == [sockets EXCEPT ![s].connected = ~disconnect]
       IN IF sockets[s].roomId = Null
          THEN /\ sockets' = gone
               /\ UNCHANGED <<rooms, roomObjects, redis>>
          ELSE LET left == leaveRoom(rooms, roomObjects, redis, sockets[s].roomId, s)
               IN /\ rooms' = left.rooms
                  /\ roomObjects' = left.objects
                  /\ redis' = left.store
                  /\ sockets' = IF left.awaits
                                THEN [gone EXCEPT ![s].pc = "left"]
                                ELSE gone
    /\ UNCHANGED issued
    /\ UNCHANGED <<presets, response, authVars>>
    /\ UNCHANGED frontVars

\* handleLeaveRoom or handleDisconnect resumed after leaveRoom's await:
\* leaveRoom, lines 364-374, clears user.roomId
LeaveRoomLeft(s) ==
    /\ sockets[s].pc = "left"
    /\ sockets' = [Returned(s) EXCEPT ![s].roomId = Null]
    /\ UNCHANGED <<rooms, roomObjects, redis, issued>>
    /\ UNCHANGED <<presets, response, authVars>>
    /\ UNCHANGED frontVars

\* the server listening, every socket connected
RoomInit ==
    /\ NoSimulation
    /\ presets = << >>
    /\ redis = << >>
    /\ rooms = {}
    /\ roomObjects = << >>
    /\ sockets = [s \in Sockets |-> FreshSocket]
    /\ response = [op |-> "none"]
    /\ revoked = {}
    /\ signed = {}
    /\ issued = 0

RoomNext ==
    \/ \E s \in Sockets, valid \in BOOLEAN : CreateRoom(s, valid, MaxParticipants)
    \/ \E s \in Sockets : CreateRoomLeft(s)
    \/ \E s \in Sockets : CreateRoomStored(s)
    \/ \E s \in Sockets, roomId \in 1..MaxRooms : JoinRoom(s, roomId)
    \/ \E s \in Sockets : JoinRoomFetched(s)
    \/ \E s \in Sockets : JoinRoomLeft(s)
    \/ \E s \in Sockets : JoinRoomStored(s)
    \/ \E s \in Sockets, disconnect \in BOOLEAN : LeaveRoom(s, disconnect)
    \/ \E s \in Sockets : LeaveRoomLeft(s)

RoomSpec == RoomInit /\ [][RoomNext]_vars

----------------------------------------------------------------------------
(* Claims about SocketService, checked under RoomSpec *)

\* C27: every room of the Map with maxParticipants >= 1 holds at most
\* maxParticipants participants in every reachable state, also when the
\* join-room handlers of different sockets interleave at their awaits.
C27_RoomNeverOverfull ==
    \A roomId \in rooms :
      roomObjects[roomId].maxParticipants >= 1 =>
        Len(roomObjects[roomId].participants) <= roomObjects[roomId].maxParticipants

\* no handler is in flight
Quiet == \A s \in Sockets : sockets[s].pc = "idle"

\* C28: once the handlers have run, in whatever interleaving of create-room,
\* join-room, leave-room and disconnect, every room of the Map has at least
\* one participant and its hostId is one of its participants.
C28_RoomHasHost ==
    Quiet =>
      \A roomId \in rooms :
        /\ Len(roomObjects[roomId].participants) >= 1
        /\ roomObjects[roomId].hostId \in Range(roomObjects[roomId].participants)

====
